---- MODULE Spec2Model ----
(***************************************************************************)
(* The RAG pipeline of RAGChatBot (rag-chain.ts, dist/rag-chain.js) and    *)
(* the request handlers of server.ts that run it.                          *)
(*                                                                         *)
(* One behaviour is one request: a handler calls graph.invoke, the graph   *)
(* runs its nodes (one action per node, the conditional edge included in   *)
(* the node that precedes it) and the handler answers.  Every external     *)
(* call (retriever, language model) is an input: its result, or the error  *)
(* it throws, is chosen with \E from a small set.                          *)
(*                                                                         *)
(* Strings are sequences of one-character strings, so that toLowerCase,    *)
(* trim and includes are computed; the long fixed messages of the code are *)
(* one-element sequences holding the whole literal.                        *)
(***************************************************************************)
EXTENDS Integers, Sequences, FiniteSets, TLC

(* ---- bounds ---------------------------------------------------------- *)
\* largest number of documents the retriever returns in the model
MaxDocs == 5
\* longest text the answer-generating model call returns in the model
MaxAnsLen == 1

(* ---- string functions of JavaScript ---------------------------------- *)
Whitespace == {" ", "\n", "\t"}

toLowerChar(c) ==
    CASE c = "Y" -> "y"
      [] c = "E" -> "e"
      [] c = "S" -> "s"
      [] c = "N" -> "n"
      [] c = "O" -> "o"
      [] c = "M" -> "m"
      [] c = "R" -> "r"
      [] OTHER -> c

toLowerCase(s) == [i \in 1..Len(s) |-> toLowerChar(s[i])]

RECURSIVE trimStart(_)
trimStart(s) ==
    IF s # <<>> /\ Head(s) \in Whitespace THEN trimStart(Tail(s)) ELSE s

RECURSIVE trimEnd(_)
trimEnd(s) ==
    IF s # <<>> /\ s[Len(s)] \in Whitespace
    THEN trimEnd(SubSeq(s, 1, Len(s) - 1))
    ELSE s

trim(s) == trimEnd(trimStart(s))

includes(s, sub) ==
    \E i \in 1..(Len(s) - Len(sub) + 1) : SubSeq(s, i, i + Len(sub) - 1) = sub

Min(a, b) == IF a < b THEN a ELSE b

Ran(s) == {s[i] : i \in 1..Len(s)}

(* ---- literals of the code -------------------------------------------- *)
YES == <<"y", "e", "s">>
NO == <<"n", "o">>
TIMEOUT == <<"timeout">>

\* rag-chain.ts:45 and server.ts:501
COULD_NOT_FIND ==
    <<"I couldn't find a relevant answer to your question. Can I assist you with anything else?">>
\* rag-chain.ts:76
INCOMPLETE_NOTE ==
    <<" (Note: This information may be incomplete based on available documents.)">>
\* dist/rag-chain.js:31
DONT_KNOW == <<"Sorry, I don't know the answer to that question.">>
\* server.ts:357, the Error of a deadline timer, split at its word "timeout"
TIMEOUT_MESSAGE ==
    <<"Request ", "timeout", ": The operation took too long. Please wait a bit longer or try again.">>
\* server.ts:528
UNKNOWN_ERROR == <<"Unknown error occurred">>

(* ---- inputs ---------------------------------------------------------- *)
\* what a classifier call can answer
DocVerdicts == { YES, NO, <<"Y", "e", "s", ".">> }
AnsVerdicts == { YES, NO, <<" ", "N", "O", "\n">>, <<"N", "o", ".">> }

\* the result of one external call
Returned(t) == [called |-> TRUE, threw |-> FALSE, text |-> t]
Threw == [called |-> TRUE, threw |-> TRUE, text |-> <<>>]
NotCalled == [called |-> FALSE, threw |-> FALSE, text |-> <<>>]

DocOutcomes == {Returned(v) : v \in DocVerdicts} \cup {Threw}
AnsOutcomes == {Returned(v) : v \in AnsVerdicts} \cup {Threw}

\* the texts the answer-generating call can return
AnsChars == {" ", "a"}
Answers == UNION {[1..n -> AnsChars] : n \in 0..MaxAnsLen}

\* error.message of a failing external call
Causes == { <<"connect ECONNREFUSED">>, <<"socket ", "timeout">>, <<>> }

\* an optional number: <<>> when undefined, <<n>> when it is the number n
UNSET == <<>>

(* ---- the graph state and its reducers -------------------------------- *)
UNDEFINED == "undefined"

Channels == {"documents", "generatedAnswer", "model", "vectorStore"}

\* a model reducer that keeps the old value
reducer_KeepOldModel(k, x, y) ==
    CASE k = "generatedAnswer" -> IF y # <<>> THEN y ELSE x
      [] k = "model" -> x
      [] k = "vectorStore" -> IF y # UNDEFINED THEN y ELSE x
      [] OTHER -> y

reducer(k, x, y) ==
    CASE k = "generatedAnswer" -> IF y # <<>> THEN y ELSE x
      [] k = "model" -> IF y # UNDEFINED THEN y ELSE x
      [] k = "vectorStore" -> IF y # UNDEFINED THEN y ELSE x
      [] OTHER -> y

\* a merge that resets the channels the update does not name
applyUpdate_ResetAbsent(st, upd) ==
    [k \in Channels |->
        IF k \in DOMAIN upd THEN reducer(k, st[k], upd[k])
        ELSE IF k = "documents" THEN <<>> ELSE st[k]]

\* the state after a node returned the update upd: keys that are no channel
\* of GraphState are ignored
applyUpdate(st, upd) ==
    [k \in Channels |->
        IF k \in DOMAIN upd THEN reducer(k, st[k], upd[k]) ELSE st[k]]

defaultState ==
    [documents |-> <<>>, generatedAnswer |-> <<>>, model |-> UNDEFINED,
     vectorStore |-> UNDEFINED]

(* ---- nodes of the graph ---------------------------------------------- *)
\* the conditional edge always taking the "yes" branch
hasRelevantDocs_AlwaysYes(st) == "yes"

hasRelevantDocs(st) == IF Len(st.documents) = 0 THEN "no" ELSE "yes"

\* a grader that drops the document whose call threw
keepsDocument_DropOnThrow(o) ==
    IF o.threw THEN FALSE ELSE includes(toLowerCase(o.text), YES)

\* rag-chain.ts:176-183: the verdict contains "yes", or the call threw
keepsDocument(o) ==
    IF o.threw THEN TRUE ELSE includes(toLowerCase(o.text), YES)

\* unshift instead of push
pushDoc_Front(acc, doc) == <<doc>> \o acc

pushDoc(acc, doc) == Append(acc, doc)

RECURSIVE gradeLoop(_, _, _, _)
gradeLoop(docs, outcomes, i, relevantDocs) ==
    IF i > Len(docs) THEN relevantDocs
    ELSE gradeLoop(docs, outcomes, i + 1,
            IF keepsDocument(outcomes[i])
            THEN pushDoc(relevantDocs, docs[i])
            ELSE relevantDocs)

\* a fallback that keeps every retrieved document
topFallback_KeepAll(relevantDocs, docs) ==
    IF Len(relevantDocs) = 0 /\ Len(docs) > 0
    THEN relevantDocs \o docs
    ELSE relevantDocs

topFallback(relevantDocs, docs) ==
    IF Len(relevantDocs) = 0 /\ Len(docs) > 0
    THEN relevantDocs \o SubSeq(docs, 1, Min(3, Len(docs)))
    ELSE relevantDocs

\* the update the lenient documentGrader returns
documentGrader(st, outcomes) ==
    [documents |-> topFallback(gradeLoop(st.documents, outcomes, 1, <<>>), st.documents),
     generatedAnswer |-> st.generatedAnswer,
     model |-> st.model]

\* dist/rag-chain.js: no try/catch, the first throwing call ends the loop
firstThrow(outcomes) ==
    IF \E i \in DOMAIN outcomes : outcomes[i].threw
    THEN CHOOSE i \in DOMAIN outcomes :
            /\ outcomes[i].threw
            /\ \A j \in 1..(i - 1) : ~outcomes[j].threw
    ELSE 0

RECURSIVE strictGradeLoop(_, _, _, _)
strictGradeLoop(docs, outcomes, i, relevantDocs) ==
    IF i > Len(docs) THEN relevantDocs
    ELSE strictGradeLoop(docs, outcomes, i + 1,
            IF includes(toLowerCase(outcomes[i].text), YES)
            THEN Append(relevantDocs, docs[i])
            ELSE relevantDocs)

strictDocumentGrader(st, outcomes) ==
    [documents |-> strictGradeLoop(st.documents, outcomes, 1, <<>>),
     generatedAnswer |-> st.generatedAnswer,
     model |-> st.model]

\* rag-chain.ts:44: no answer, or only whitespace
isBlank(answer) == answer = <<>> \/ trim(answer) = <<>>

\* an answer grader that substitutes the fixed message when its call throws
gradeGeneratedAnswer_ReplaceOnThrow(st, o) ==
    IF isBlank(st.generatedAnswer)
    THEN [gradeGeneratedAnswer |-> COULD_NOT_FIND]
    ELSE IF o.threw
    THEN [generatedAnswer |-> COULD_NOT_FIND]
    ELSE IF trim(toLowerCase(o.text)) = NO
    THEN [documents |-> st.documents,
          generatedAnswer |-> st.generatedAnswer \o INCOMPLETE_NOTE,
          model |-> st.model]
    ELSE st

\* an answer grader that replaces a rejected answer by the note
gradeGeneratedAnswer_ReplaceOnNo(st, o) ==
    IF isBlank(st.generatedAnswer)
    THEN [gradeGeneratedAnswer |-> COULD_NOT_FIND]
    ELSE IF ~o.threw /\ trim(toLowerCase(o.text)) = NO
    THEN [documents |-> st.documents,
          generatedAnswer |-> INCOMPLETE_NOTE,
          model |-> st.model]
    ELSE st

\* the update the lenient gradeGeneratedAnswer returns; o is the outcome of
\* its classifier call (NotCalled on the early return)
gradeGeneratedAnswer(st, o) ==
    IF isBlank(st.generatedAnswer)
    THEN [gradeGeneratedAnswer |-> COULD_NOT_FIND]
    ELSE IF ~o.threw /\ trim(toLowerCase(o.text)) = NO
    THEN [documents |-> st.documents,
          generatedAnswer |-> st.generatedAnswer \o INCOMPLETE_NOTE,
          model |-> st.model]
    ELSE st

\* dist/rag-chain.js:22-34, for a call that returned
strictGradeGeneratedAnswer(st, o) ==
    IF includes(toLowerCase(o.text), NO)
    THEN [gradeGeneratedAnswer |-> DONT_KNOW]
    ELSE st

(* ---- responses of the handlers --------------------------------------- *)
NoResponse ==
    [status |-> 0, answer |-> <<>>, documents |-> <<>>, error |-> "", message |-> <<>>]

\* server.ts:499-506
chatSuccess(result) ==
    [status |-> 200,
     answer |-> IF result.generatedAnswer # <<>> THEN result.generatedAnswer
                ELSE COULD_NOT_FIND,
     documents |-> result.documents,
     error |-> "", message |-> <<>>]

\* a catch block that answers 200 with the fallback answer
chatFailure_Fallback(errorMessage) ==
    [status |-> 200, answer |-> COULD_NOT_FIND, documents |-> <<>>,
     error |-> "", message |-> <<>>]

\* server.ts:519-530
chatFailure(errorMessage) ==
    LET isTimeout == errorMessage # <<>> /\ includes(errorMessage, TIMEOUT)
    IN [status |-> IF isTimeout THEN 408 ELSE 500,
        answer |-> <<>>, documents |-> <<>>,
        error |-> IF isTimeout THEN "Request Timeout" ELSE "Failed to process message",
        message |-> IF errorMessage # <<>> THEN errorMessage ELSE UNKNOWN_ERROR]

\* server.ts:548-555 and the legacy handler
querySuccess(result) ==
    [status |-> 200, answer |-> result.generatedAnswer,
     documents |-> result.documents, error |-> "", message |-> <<>>]

\* server.ts:556-561
queryFailure(errorMessage) ==
    [status |-> 500, answer |-> <<>>, documents |-> <<>>,
     error |-> "Failed to process query", message |-> errorMessage]

(* ---- state ----------------------------------------------------------- *)
VARIABLES
    variant,      \* "lenient" (rag-chain.ts) or "strict" (dist/rag-chain.js)
    handler,      \* "chat", "query" (server.ts) or "legacy" (dist server)
    pc,           \* the node the run is about to execute, "END" or "failed"
    state,        \* the channels of GraphState
    retrieved,    \* what retrieve_documents returned
    executed,     \* the nodes executed so far, in order
    lmCalls,      \* the node of every language-model call made, in order
    docOutcomes,  \* the outcomes of the document classifier calls
    generated,    \* the outcome of the call of generate_answer
    ansOutcome,   \* the outcome of the call of grade_generated_answer
    failure,      \* the node that threw and the message of its error
    sessions,     \* the language-model sessions instantiated
    modelUsed,    \* the session each model-using stage worked with, in order
    runBuilds,    \* the index builds started inside the run (retrieveDoc)
    searched,     \* the vector store the retriever of the run searched
    timerArmed,   \* /api/chat: the deadline timer of graph.invoke is armed
    timerFired,   \* /api/chat: that timer expired
    response,     \* the HTTP response sent, NoResponse before
    env,              \* process.env: CHUNK_SIZE and CHUNK_OVERLAP
    avgDocLength,     \* mean pageContent length of the documents of the sources
    vectorStoreCache, \* server.ts:19, cache key -> store
    invocations,      \* the calls of getOrCreateVectorStore
    stores,           \* the MemoryVectorStore objects created, by identity
    endpoint,     \* the route of the request a handler of server.ts serves
    body,         \* req.body: urls, uploadIds and message (or question)
    hstep,        \* where the handler is: "received", "store", "work", "done"
    isFirstLoad,  \* /api/chat: the cache had no entry when the request came
    timeoutId,    \* /api/chat: the armed deadline timer, "none" without one
    expired,      \* /api/chat: the deadline timers that fired
    responses,    \* the HTTP responses sent for the request, in order
    storeCall,    \* the request's call of getOrCreateVectorStore
    work,         \* what the handler awaits after the store: the graph run
                  \* or, for sample questions, the search and model call
    cached,       \* vectorStoreCache.has(key of the request)
    effects,      \* what was done for the request, counted
    rawConfig,        \* req.body.ragConfig as the client sent it
    chunking,         \* what buildVectorStore hands to the text splitter
    retrieverConfig,  \* what getRetriever hands to asRetriever
    conversationHistory, \* state.conversationHistory of generate_answer
    prompt,           \* the conversation part of the prompt of generate_answer,
                      \* <<>> before the prompt is built
    uploadStore,  \* server.ts:20: the ids of the uploads the registry holds;
                  \* the entry of an id keeps the content of its file
    issued,       \* the number of upload ids generated so far
    clearedIds,   \* the ids DELETE /api/uploads/clear removed
    uploadResult, \* the response of the latest POST /api/upload, with the
                  \* registry before and after the request
    served        \* the requests that searched an index, in order

pipelineVars == <<variant, handler, pc, state, retrieved, executed, lmCalls,
                  docOutcomes, generated, ansOutcome, failure, sessions,
                  modelUsed, runBuilds, searched, timerArmed, timerFired,
                  response>>

cacheVars == <<env, avgDocLength, vectorStoreCache, invocations, stores>>

serverVars == <<endpoint, body, hstep, isFirstLoad, timeoutId, expired,
                responses, storeCall, work, cached, effects>>

configVars == <<rawConfig, chunking, retrieverConfig, conversationHistory,
                prompt>>

uploadVars == <<uploadStore, issued, clearedIds, uploadResult, served>>

vars == <<pipelineVars, cacheVars, serverVars, configVars, uploadVars>>

NoFailure == [stage |-> "none", message |-> <<>>]

Deployments ==
    { <<"lenient", "chat">>, <<"lenient", "query">>, <<"strict", "legacy">> }

\* server.ts:468-478 and 547 pass the store they obtained; the legacy
\* handler passes only question and urls
initialState(h) ==
    [defaultState EXCEPT !.vectorStore =
        IF h \in {"chat", "query"} THEN "store" ELSE UNDEFINED]

PipelineInit ==
    /\ \E d \in Deployments : variant = d[1] /\ handler = d[2]
    /\ pc = "retrieve_documents"
    /\ state = initialState(handler)
    /\ retrieved = <<>>
    /\ executed = <<>>
    /\ lmCalls = <<>>
    /\ docOutcomes = <<>>
    /\ generated = NotCalled
    /\ ansOutcome = NotCalled
    /\ failure = NoFailure
    /\ sessions = 0
    /\ modelUsed = <<>>
    /\ runBuilds = 0
    /\ searched = UNDEFINED
    /\ timerArmed = (handler = "chat")
    /\ timerFired = FALSE
    /\ response = NoResponse

\* no call of getOrCreateVectorStore is modelled in the pipeline behaviours
\* process.env without any of the variables the code reads
NoEnv ==
    [chunkSize |-> UNSET, chunkOverlap |-> UNSET, retrieverK |-> UNSET,
     retrieverFetchK |-> UNSET, retrieverLambda |-> UNSET,
     retrieverStrategy |-> UNSET, nodeEnv |-> UNSET]

CacheIdle ==
    /\ env = NoEnv
    /\ avgDocLength = 0
    /\ vectorStoreCache = <<>>
    /\ invocations = <<>>
    /\ stores = <<>>

NoEffects ==
    [lookups |-> 0, builds |-> 0, writes |-> 0, timers |-> 0, stages |-> 0,
     deadlines |-> <<>>, unhandled |-> 0]

NoWork == [status |-> "none", message |-> <<>>]

\* no handler of server.ts is modelled in the pipeline and cache behaviours
ServerIdle ==
    /\ endpoint = "none"
    /\ body = [urls |-> <<>>, uploadIds |-> <<>>, message |-> <<>>]
    /\ hstep = "done"
    /\ isFirstLoad = FALSE
    /\ timeoutId = "none"
    /\ expired = {}
    /\ responses = <<>>
    /\ storeCall = NoWork
    /\ work = NoWork
    /\ cached = FALSE
    /\ effects = NoEffects

\* no configuration is resolved and no prompt built
ConfigIdle ==
    /\ rawConfig = "none"
    /\ chunking = <<>>
    /\ retrieverConfig = <<>>
    /\ conversationHistory = <<>>
    /\ prompt = <<>>

NoUpload == [status |-> 0, error |-> "", before |-> {}, after |-> {}]

\* no file was uploaded and no request served
UploadIdle ==
    /\ uploadStore = {}
    /\ issued = 0
    /\ clearedIds = {}
    /\ uploadResult = NoUpload
    /\ served = <<>>

Init == PipelineInit /\ CacheIdle /\ ServerIdle /\ ConfigIdle /\ UploadIdle

fail(stage, message) ==
    /\ pc' = "failed"
    /\ failure' = [stage |-> stage, message |-> message]

\* an edge that skips the document grader
edge_SkipGrading(node) ==
    CASE node = "retrieve_documents" -> "create_model"
      [] node = "create_model" -> "generate_answer"
      [] node = "generate_answer" -> "grade_generated_answer"
      [] node = "grade_generated_answer" -> "END"

\* the addEdge calls of the graph (rag-chain.ts:351-359)
edge(node) ==
    CASE node = "retrieve_documents" -> "create_model"
      [] node = "create_model" -> "grade_documents"
      [] node = "generate_answer" -> "grade_generated_answer"
      [] node = "grade_generated_answer" -> "END"

\* a retrieve stage that ignores the store of the state
usesProvidedStore_Never(st) == FALSE

\* rag-chain.ts:282: if (vectorStore)
usesProvidedStore(st) == st.vectorStore # UNDEFINED

\* the object new ChatOllama returns on the n-th instantiation of the run
sessionHandle(n) ==
    CASE n = 1 -> "session1"
      [] n = 2 -> "session2"
      [] n = 3 -> "session3"
      [] OTHER -> "session4"

\* const model = state.model ?? (await createModel())
modelOf(st, n) == IF st.model # UNDEFINED THEN st.model ELSE sessionHandle(n + 1)

obtainModel ==
    /\ sessions' = IF state.model # UNDEFINED THEN sessions ELSE sessions + 1
    /\ modelUsed' = Append(modelUsed, modelOf(state, sessions))

\* retrieveDocNode: the retriever returns its documents in rank order; a
\* document object is named by its rank.  Without a store in the state,
\* retrieveDoc builds one from the urls first.
RetrieveDocuments ==
    /\ pc = "retrieve_documents"
    /\ executed' = Append(executed, "retrieve_documents")
    /\ runBuilds' = IF usesProvidedStore(state) THEN runBuilds ELSE runBuilds + 1
    /\ \/ \E n \in 0..MaxDocs :
            /\ searched' = IF usesProvidedStore(state) THEN state.vectorStore
                           ELSE "store built by retrieveDoc"
            /\ retrieved' = [i \in 1..n |-> i]
            /\ state' = applyUpdate(state, [documents |-> [i \in 1..n |-> i]])
            /\ pc' = edge("retrieve_documents")
            /\ UNCHANGED failure
       \/ \E c \in Causes :
            /\ fail("retrieve_documents", c)
            /\ UNCHANGED <<retrieved, state, searched>>
    /\ UNCHANGED <<variant, handler, lmCalls, docOutcomes, generated,
                   ansOutcome, sessions, modelUsed, timerArmed, timerFired,
                   response>>
    /\ UNCHANGED <<cacheVars, serverVars, configVars, uploadVars>>

\* createModelNode
CreateModel ==
    /\ pc = "create_model"
    /\ executed' = Append(executed, "create_model")
    /\ sessions' = sessions + 1
    /\ state' = applyUpdate(state, [model |-> sessionHandle(sessions + 1)])
    /\ pc' = edge("create_model")
    /\ UNCHANGED <<variant, handler, retrieved, lmCalls, docOutcomes,
                   generated, ansOutcome, failure, modelUsed, runBuilds,
                   searched, timerArmed, timerFired, response>>
    /\ UNCHANGED <<cacheVars, serverVars, configVars, uploadVars>>

calls(n, node) == [i \in 1..n |-> node]

\* documentGrader, then the conditional edge hasRelevantDocs
GradeDocuments ==
    /\ pc = "grade_documents"
    /\ executed' = Append(executed, "grade_documents")
    /\ obtainModel
    /\ \E outcomes \in [1..Len(state.documents) -> DocOutcomes] :
        /\ docOutcomes' = outcomes
        /\ IF variant = "strict" /\ firstThrow(outcomes) # 0
           THEN /\ lmCalls' = lmCalls \o calls(firstThrow(outcomes), "grade_documents")
                /\ fail("grade_documents", <<"classifier failed">>)
                /\ UNCHANGED state
           ELSE /\ lmCalls' = lmCalls \o calls(Len(state.documents), "grade_documents")
                /\ state' = applyUpdate(state,
                    LET st == [state EXCEPT !.model = modelOf(state, sessions)]
                    IN IF variant = "strict"
                       THEN strictDocumentGrader(st, outcomes)
                       ELSE documentGrader(st, outcomes))
                /\ pc' = IF hasRelevantDocs(state') = "yes"
                         THEN "generate_answer" ELSE "END"
                /\ UNCHANGED failure
    /\ UNCHANGED <<variant, handler, retrieved, generated, ansOutcome,
                   runBuilds, searched, timerArmed, timerFired, response>>
    /\ UNCHANGED <<cacheVars, serverVars, configVars, uploadVars>>

\* generateAnswer: one model call, no try/catch
GenerateAnswer ==
    /\ pc = "generate_answer"
    /\ executed' = Append(executed, "generate_answer")
    /\ obtainModel
    /\ lmCalls' = Append(lmCalls, "generate_answer")
    /\ \/ \E a \in Answers :
            /\ generated' = Returned(a)
            /\ state' = applyUpdate(state, [generatedAnswer |-> a])
            /\ pc' = edge("generate_answer")
            /\ UNCHANGED failure
       \/ \E c \in Causes :
            /\ generated' = Threw
            /\ fail("generate_answer", c)
            /\ UNCHANGED state
    /\ UNCHANGED <<variant, handler, retrieved, docOutcomes, ansOutcome,
                   runBuilds, searched, timerArmed, timerFired, response>>
    /\ UNCHANGED <<cacheVars, serverVars, configVars, uploadVars>>

\* gradeGeneratedAnswer of rag-chain.ts, then the edge to END
GradeGeneratedAnswer ==
    /\ pc = "grade_generated_answer"
    /\ variant = "lenient"
    /\ executed' = Append(executed, "grade_generated_answer")
    /\ obtainModel
    /\ IF isBlank(state.generatedAnswer)
       THEN /\ ansOutcome' = NotCalled
            /\ lmCalls' = lmCalls
       ELSE /\ ansOutcome' \in AnsOutcomes
            /\ lmCalls' = Append(lmCalls, "grade_generated_answer")
    /\ state' = applyUpdate(state, gradeGeneratedAnswer(state, ansOutcome'))
    /\ pc' = edge("grade_generated_answer")
    /\ UNCHANGED <<variant, handler, retrieved, docOutcomes, generated,
                   failure, runBuilds, searched, timerArmed, timerFired,
                   response>>
    /\ UNCHANGED <<cacheVars, serverVars, configVars, uploadVars>>

\* gradeGeneratedAnswer of dist/rag-chain.js, then the edge to END
StrictGradeGeneratedAnswer ==
    /\ pc = "grade_generated_answer"
    /\ variant = "strict"
    /\ executed' = Append(executed, "grade_generated_answer")
    /\ obtainModel
    /\ lmCalls' = Append(lmCalls, "grade_generated_answer")
    /\ ansOutcome' \in AnsOutcomes
    /\ IF ansOutcome'.threw
       THEN /\ fail("grade_generated_answer", <<"classifier failed">>)
            /\ UNCHANGED state
       ELSE /\ state' = applyUpdate(state, strictGradeGeneratedAnswer(state, ansOutcome'))
            /\ pc' = edge("grade_generated_answer")
            /\ UNCHANGED failure
    /\ UNCHANGED <<variant, handler, retrieved, docOutcomes, generated,
                   runBuilds, searched, timerArmed, timerFired, response>>
    /\ UNCHANGED <<cacheVars, serverVars, configVars, uploadVars>>

Settled == pc \in {"END", "failed"}

\* /api/chat: graph.invoke settled before the deadline
ChatRespond ==
    /\ handler = "chat"
    /\ Settled
    /\ response = NoResponse
    /\ response' = IF pc = "END" THEN chatSuccess(state)
                   ELSE chatFailure(failure.message)
    /\ timerArmed' = FALSE
    /\ UNCHANGED <<variant, handler, pc, state, retrieved, executed, lmCalls,
                   docOutcomes, generated, ansOutcome, failure, sessions,
                   modelUsed, runBuilds, searched, timerFired>>
    /\ UNCHANGED <<cacheVars, serverVars, configVars, uploadVars>>

\* /api/chat: the deadline timer of graph.invoke expires while the run is in
\* flight; Promise.race rejects and the catch block answers
ChatTimeout ==
    /\ handler = "chat"
    /\ timerArmed
    /\ ~Settled
    /\ response = NoResponse
    /\ timerArmed' = FALSE
    /\ timerFired' = TRUE
    /\ response' = chatFailure(TIMEOUT_MESSAGE)
    /\ UNCHANGED <<variant, handler, pc, state, retrieved, executed, lmCalls,
                   docOutcomes, generated, ansOutcome, failure, sessions,
                   modelUsed, runBuilds, searched>>
    /\ UNCHANGED <<cacheVars, serverVars, configVars, uploadVars>>

\* /api/query of server.ts and of the legacy server
QueryRespond ==
    /\ handler \in {"query", "legacy"}
    /\ Settled
    /\ response = NoResponse
    /\ response' = IF pc = "END" THEN querySuccess(state)
                   ELSE queryFailure(failure.message)
    /\ UNCHANGED <<variant, handler, pc, state, retrieved, executed, lmCalls,
                   docOutcomes, generated, ansOutcome, failure, sessions,
                   modelUsed, runBuilds, searched, timerArmed, timerFired>>
    /\ UNCHANGED <<cacheVars, serverVars, configVars, uploadVars>>

\* the steps of the graph: an external call of a node returned or threw
RunNext ==
    \/ RetrieveDocuments
    \/ CreateModel
    \/ GradeDocuments
    \/ GenerateAnswer
    \/ GradeGeneratedAnswer
    \/ StrictGradeGeneratedAnswer

Next ==
    \/ RetrieveDocuments
    \/ CreateModel
    \/ GradeDocuments
    \/ GenerateAnswer
    \/ GradeGeneratedAnswer
    \/ StrictGradeGeneratedAnswer
    \/ ChatRespond
    \/ ChatTimeout
    \/ QueryRespond

Spec == Init /\ [][Next]_vars

\* every external call of the run returns or throws
FairSpec == Spec /\ WF_vars(RunNext)

\* a session the caller of graph.invoke created and put into the state
SUPPLIED_SESSION == "session of the caller"

\* graph.invoke with a state that already carries a model
SuppliedInit ==
    /\ \E d \in Deployments : variant = d[1] /\ handler = d[2]
    /\ pc = "retrieve_documents"
    /\ state = [initialState(handler) EXCEPT !.model = SUPPLIED_SESSION]
    /\ retrieved = <<>>
    /\ executed = <<>>
    /\ lmCalls = <<>>
    /\ docOutcomes = <<>>
    /\ generated = NotCalled
    /\ ansOutcome = NotCalled
    /\ failure = NoFailure
    /\ sessions = 0
    /\ modelUsed = <<>>
    /\ runBuilds = 0
    /\ searched = UNDEFINED
    /\ timerArmed = (handler = "chat")
    /\ timerFired = FALSE
    /\ response = NoResponse
    /\ CacheIdle
    /\ ServerIdle
    /\ ConfigIdle
    /\ UploadIdle

SuppliedSpec == SuppliedInit /\ [][Next]_vars

(* ---- the index cache of server.ts ------------------------------------ *)
\* the calls of getOrCreateVectorStore in one behaviour
NumCalls == 3

\* strings are sequences of characters; the code units of the characters
\* that occur in the urls and upload ids
codeUnit(c) ==
    CASE c = "a" -> 97
      [] c = "b" -> 98
      [] c = "f" -> 102
      [] c = "g" -> 103
      [] c = "|" -> 124
      [] OTHER -> 0

\* the default comparison of Array.prototype.sort: by code units
RECURSIVE lessThan(_, _)
lessThan(s, t) ==
    IF t = <<>> THEN FALSE
    ELSE IF s = <<>> THEN TRUE
    ELSE IF Head(s) = Head(t) THEN lessThan(Tail(s), Tail(t))
    ELSE codeUnit(Head(s)) < codeUnit(Head(t))

RECURSIVE insertSorted(_, _)
insertSorted(sorted, x) ==
    IF sorted = <<>> THEN <<x>>
    ELSE IF lessThan(x, Head(sorted)) THEN <<x>> \o sorted
    ELSE <<Head(sorted)>> \o insertSorted(Tail(sorted), x)

RECURSIVE insertionSort(_)
insertionSort(list) ==
    IF list = <<>> THEN <<>>
    ELSE insertSorted(insertionSort(SubSeq(list, 1, Len(list) - 1)),
                      list[Len(list)])

\* a key built from the list in the order of the request
sort_KeepOrder(list) == list

\* urls.sort(), uploadIds.sort()
sort(list) == insertionSort(list)

\* list.join(sep)
RECURSIVE join(_, _)
join(list, sep) ==
    IF list = <<>> THEN <<>>
    ELSE IF Len(list) = 1 THEN list[1]
    ELSE list[1] \o sep \o join(Tail(list), sep)

digit(d) ==
    CASE d = 0 -> "0" [] d = 1 -> "1" [] d = 2 -> "2" [] d = 3 -> "3"
      [] d = 4 -> "4" [] d = 5 -> "5" [] d = 6 -> "6" [] d = 7 -> "7"
      [] d = 8 -> "8" [] d = 9 -> "9"

\* the text of a whole number in a template literal
RECURSIVE numberToString(_)
numberToString(n) ==
    IF n < 0 THEN <<"-">> \o numberToString(0 - n)
    ELSE IF n < 10 THEN <<digit(n)>>
    ELSE numberToString(n \div 10) \o <<digit(n % 10)>>

AUTO == <<"a", "u", "t", "o">>
NONE == <<"n", "o", "n", "e">>
BAR == <<"|">>
CHUNK_IS == <<":", ":", "c", "h", "u", "n", "k", "=">>
OVERLAP_IS == <<":", ":", "o", "v", "e", "r", "l", "a", "p", "=">>
UPLOADS_IS == <<":", ":", "u", "p", "l", "o", "a", "d", "s", "=">>

\* a key that writes the default chunk size for an unset value
optionKey_Default(v) == IF v = UNSET THEN numberToString(700) ELSE numberToString(v[1])

\* ragConfig?.chunkSize ?? "auto"
optionKey(v) == IF v = UNSET THEN AUTO ELSE numberToString(v[1])

\* a key without the chunk size
buildVectorStoreCacheKey_NoChunk(urls, ragConfig) ==
    join(sort(urls), BAR) \o CHUNK_IS \o AUTO
        \o OVERLAP_IS \o optionKey(ragConfig.chunkOverlap)

buildVectorStoreCacheKey(urls, ragConfig) ==
    join(sort(urls), BAR) \o CHUNK_IS \o optionKey(ragConfig.chunkSize)
        \o OVERLAP_IS \o optionKey(ragConfig.chunkOverlap)

buildVectorStoreCacheKeyWithUploads(urls, uploadIds, ragConfig) ==
    buildVectorStoreCacheKey(urls, ragConfig) \o UPLOADS_IS
        \o (IF Len(uploadIds) > 0 THEN join(sort(uploadIds), BAR) ELSE NONE)

\* ragConfig?.chunkSize ?? Number(process.env.CHUNK_SIZE); UNSET is the NaN
\* of an unset variable
explicitOf(given, envValue) == IF given # UNSET THEN given ELSE envValue

\* Number.isFinite(explicitChunkSize) && explicitChunkSize > 0
useExplicit(explicitChunkSize) ==
    explicitChunkSize # UNSET /\ explicitChunkSize[1] > 0

\* a sizing whose thresholds include 6000 and 1500
resolveChunkSize_InclusiveThresholds(ragConfig, e, avg) ==
    LET explicitChunkSize == explicitOf(ragConfig.chunkSize, e.chunkSize) IN
    IF useExplicit(explicitChunkSize) THEN explicitChunkSize[1]
    ELSE IF avg >= 6000 THEN 900
    ELSE IF avg <= 1500 THEN 400
    ELSE 700

\* rag-chain.ts:212-219
resolveChunkSize(ragConfig, e, avg) ==
    LET explicitChunkSize == explicitOf(ragConfig.chunkSize, e.chunkSize) IN
    IF useExplicit(explicitChunkSize) THEN explicitChunkSize[1]
    ELSE IF avg > 6000 THEN 900
    ELSE IF avg < 1500 THEN 400
    ELSE 700

\* Math.round(chunkSize * 0.2) of a whole chunkSize
roundFifth(chunkSize) == (2 * chunkSize + 5) \div 10

\* rag-chain.ts:220-222
resolveChunkOverlap(ragConfig, e, chunkSize) ==
    LET explicitOverlap == explicitOf(ragConfig.chunkOverlap, e.chunkOverlap) IN
    IF explicitOverlap # UNSET /\ explicitOverlap[1] >= 0 THEN explicitOverlap[1]
    ELSE roundFifth(chunkSize)

\* a cache that finds nothing
cacheHas_Never(cache, key) == FALSE

\* vectorStoreCache.has(cacheKey)
cacheHas(cache, key) == key \in DOMAIN cache

\* a lookup that answers with the entry of some key
cacheGet_AnyKey(cache, key) == cache[CHOOSE k \in DOMAIN cache : TRUE]

\* vectorStoreCache.get(cacheKey)!
cacheGet(cache, key) == cache[key]

\* vectorStoreCache.set(cacheKey, vectorStore)
cacheSet(cache, key, store) ==
    [k \in DOMAIN cache \cup {key} |-> IF k = key THEN store ELSE cache[k]]

\* a call that stores its store object whether or not the build completed
cacheAfterBuild_Always(cache, key, store, built) == cacheSet(cache, key, store)

\* server.ts:321-329: the set is reached only when the awaited build did not
\* throw
cacheAfterBuild(cache, key, store, built) ==
    IF built THEN cacheSet(cache, key, store) ELSE cache

\* the requests of a client that works on two urls and two uploaded files,
\* named in either order; the chunking unset or explicit
Urls == { <<"a">>, <<"b">> }
UploadIds == { <<"f">>, <<"g">> }

InAnyOrder(S) ==
    { l \in [1..Cardinality(S) -> S] : \A x \in S : \E i \in DOMAIN l : l[i] = x }

RagConfigs ==
    [chunkSize : {UNSET, <<700>>, <<400>>}, chunkOverlap : {UNSET}]
        \cup {[chunkSize |-> <<700>>, chunkOverlap |-> <<140>>]}

Requests ==
    [urls : InAnyOrder(Urls),
     uploadIds : InAnyOrder(UploadIds),
     ragConfig : RagConfigs]

\* the requests of clients that work on the same page at the same time: one
\* leaves the chunking to the server, one asks for a chunkSize
ConcurrentRequests ==
    { [urls |-> <<<<"a">>, <<"b">>>>, uploadIds |-> <<>>,
       ragConfig |-> [chunkSize |-> UNSET, chunkOverlap |-> UNSET]],
      [urls |-> <<<<"b">>, <<"a">>>>, uploadIds |-> <<>>,
       ragConfig |-> [chunkSize |-> <<700>>, chunkOverlap |-> UNSET]] }

\* no chunking variable is set in the environment of the server
Envs == {NoEnv}

AvgDocLengths == {1000, 3000, 7000}

\* no pipeline run is modelled in the cache behaviours
PipelineIdle ==
    /\ PipelineInit
    /\ variant = "lenient"
    /\ handler = "chat"

CacheInit ==
    /\ PipelineIdle
    /\ UploadIdle
    /\ ServerIdle
    /\ ConfigIdle
    /\ env \in Envs
    /\ avgDocLength \in AvgDocLengths
    /\ vectorStoreCache = <<>>
    /\ invocations = <<>>
    /\ stores = <<>>

Ended(i) == invocations[i].phase \in {"returned", "failed"}

\* getOrCreateVectorStore up to its return from the cache or to the await of
\* buildVectorStore, which starts the page loads
StartCall(pool, limit) ==
    /\ Len(invocations) < limit
    /\ \E req \in pool :
         LET key == buildVectorStoreCacheKeyWithUploads(
                        req.urls, req.uploadIds, req.ragConfig)
             call == [request |-> req,
                      key |-> key,
                      cachedAtStart |-> IF key \in DOMAIN vectorStoreCache
                                        THEN vectorStoreCache[key] ELSE 0,
                      after |-> {i \in 1..Len(invocations) : Ended(i)}]
         IN  invocations' = Append(invocations,
                IF cacheHas(vectorStoreCache, key)
                THEN call @@ [phase |-> "returned", built |-> FALSE,
                              store |-> cacheGet(vectorStoreCache, key),
                              waiting |-> FALSE]
                ELSE call @@ [phase |-> "loading", built |-> TRUE,
                              store |-> 0, waiting |-> TRUE])
    /\ UNCHANGED <<env, avgDocLength, vectorStoreCache, stores>>
    /\ UNCHANGED <<pipelineVars, serverVars, configVars, uploadVars>>

\* buildVectorStore: every loader.load() resolved; the chunking is resolved,
\* the documents are split and the empty store is created
LoadDocuments(i) ==
    /\ invocations[i].phase = "loading"
    /\ LET cfg == invocations[i].request.ragConfig
           chunkSize == resolveChunkSize(cfg, env, avgDocLength)
       IN  stores' = Append(stores,
               [key |-> invocations[i].key,
                chunkSize |-> chunkSize,
                chunkOverlap |-> resolveChunkOverlap(cfg, env, chunkSize),
                complete |-> FALSE])
    /\ invocations' = [invocations EXCEPT ![i].phase = "embedding",
                                          ![i].store = Len(stores) + 1]
    /\ UNCHANGED <<env, avgDocLength, vectorStoreCache>>
    /\ UNCHANGED <<pipelineVars, serverVars, configVars, uploadVars>>

\* buildVectorStore: one loader.load() rejected, so Promise.all rejects and
\* getOrCreateVectorStore throws
LoadFails(i) ==
    /\ invocations[i].phase = "loading"
    /\ invocations' = [invocations EXCEPT ![i].phase = "failed",
                                          ![i].waiting = FALSE]
    /\ vectorStoreCache' =
           cacheAfterBuild(vectorStoreCache, invocations[i].key, 0, FALSE)
    /\ UNCHANGED <<env, avgDocLength, stores>>
    /\ UNCHANGED <<pipelineVars, serverVars, configVars, uploadVars>>

\* vectorStore.addDocuments resolved: buildVectorStore returns and
\* getOrCreateVectorStore stores and returns the store
AddDocuments(i) ==
    /\ invocations[i].phase = "embedding"
    /\ stores' = [stores EXCEPT ![invocations[i].store].complete = TRUE]
    /\ vectorStoreCache' = cacheAfterBuild(vectorStoreCache, invocations[i].key,
                                           invocations[i].store, TRUE)
    /\ invocations' = [invocations EXCEPT ![i].phase = "returned",
                                          ![i].waiting = FALSE]
    /\ UNCHANGED <<env, avgDocLength>>
    /\ UNCHANGED <<pipelineVars, serverVars, configVars, uploadVars>>

\* vectorStore.addDocuments rejected: an embedding failed
AddDocumentsFails(i) ==
    /\ invocations[i].phase = "embedding"
    /\ vectorStoreCache' = cacheAfterBuild(vectorStoreCache, invocations[i].key,
                                           invocations[i].store, FALSE)
    /\ invocations' = [invocations EXCEPT ![i].phase = "failed",
                                          ![i].waiting = FALSE]
    /\ UNCHANGED <<env, avgDocLength, stores>>
    /\ UNCHANGED <<pipelineVars, serverVars, configVars, uploadVars>>

\* /api/chat: the deadline of Promise.race (server.ts:453-457) expires while
\* the call is in flight; the handler stops waiting for it, the call goes on
CallerTimeout(i) ==
    /\ invocations[i].waiting
    /\ invocations' = [invocations EXCEPT ![i].waiting = FALSE]
    /\ UNCHANGED <<env, avgDocLength, vectorStoreCache, stores>>
    /\ UNCHANGED <<pipelineVars, serverVars, configVars, uploadVars>>

CacheNext ==
    \/ StartCall(ConcurrentRequests, NumCalls)
    \/ \E i \in 1..Len(invocations) : LoadDocuments(i)
    \/ \E i \in 1..Len(invocations) : LoadFails(i)
    \/ \E i \in 1..Len(invocations) : AddDocuments(i)
    \/ \E i \in 1..Len(invocations) : AddDocumentsFails(i)
    \/ \E i \in 1..Len(invocations) : CallerTimeout(i)

\* calls of getOrCreateVectorStore that may overlap, for pages of medium
\* length
ConcurrentInit ==
    /\ CacheInit
    /\ avgDocLength = 3000

CacheSpec == ConcurrentInit /\ [][CacheNext]_vars

\* the calls of a client that waits for each answer, however long it takes,
\* before its next request
NumSequential == 2

NoneInFlight == \A i \in 1..Len(invocations) : Ended(i)

SequentialNext ==
    \/ NoneInFlight /\ StartCall(Requests, NumSequential)
    \/ \E i \in 1..Len(invocations) : LoadDocuments(i)
    \/ \E i \in 1..Len(invocations) : LoadFails(i)
    \/ \E i \in 1..Len(invocations) : AddDocuments(i)
    \/ \E i \in 1..Len(invocations) : AddDocumentsFails(i)

SequentialSpec == CacheInit /\ [][SequentialNext]_vars

(* ---- properties ------------------------------------------------------ *)
Executed(node) == node \in Ran(executed)

\* grade_documents ran to its end (it did not throw)
GradeCompleted == Executed("grade_documents") /\ failure.stage # "grade_documents"

CallsOf(node) == Cardinality({i \in 1..Len(lmCalls) : lmCalls[i] = node})

RECURSIVE IsSubsequence(_, _)
IsSubsequence(s, t) ==
    IF s = <<>> THEN TRUE
    ELSE IF t = <<>> THEN FALSE
    ELSE IF Head(s) = Head(t) THEN IsSubsequence(Tail(s), Tail(t))
    ELSE IsSubsequence(s, Tail(t))

NoDuplicates(s) == \A i, j \in 1..Len(s) : s[i] = s[j] => i = j

AllWhitespace(s) == \A i \in 1..Len(s) : s[i] \in Whitespace

\* the classifier answered the word "no", whatever its case and surrounding
\* whitespace
SaysNo(o) == o.called /\ ~o.threw /\ trim(toLowerCase(o.text)) = NO

FirstThree == <<"retrieve_documents", "create_model", "grade_documents">>

\* C1, as claimed: when the documents are empty after grade_documents the run
\* ends at once with no generate_answer, no grade_generated_answer and no
\* further model call; when they are not empty, a run that has ended has
\* executed both generate_answer and grade_generated_answer.
C1_AsClaimed ==
    GradeCompleted =>
        IF state.documents = <<>>
        THEN /\ pc = "END"
             /\ executed = FirstThree
             /\ Ran(lmCalls) \subseteq {"grade_documents"}
        ELSE Settled =>
                /\ Executed("generate_answer")
                /\ Executed("grade_generated_answer")

\* C1, amended: when the documents are empty after grade_documents the run
\* ends at once with no generate_answer, no grade_generated_answer and no
\* further model call; when they are not empty the run goes on to
\* generate_answer, and to grade_generated_answer after it unless the model
\* call of generate_answer throws, which ends the run as failed.
C1_Routing ==
    GradeCompleted =>
        IF state.documents = <<>>
        THEN /\ pc = "END"
             /\ executed = FirstThree
             /\ Ran(lmCalls) \subseteq {"grade_documents"}
        ELSE /\ pc \in {"generate_answer", "grade_generated_answer", "END", "failed"}
             /\ pc = "generate_answer" => executed = FirstThree
             /\ pc = "grade_generated_answer" =>
                    executed = Append(FirstThree, "generate_answer")
             /\ pc = "END" =>
                    executed = FirstThree \o <<"generate_answer", "grade_generated_answer">>
             /\ pc = "failed" =>
                    /\ Executed("generate_answer")
                    /\ \/ failure.stage = "generate_answer"
                          /\ ~Executed("grade_generated_answer")
                       \/ failure.stage = "grade_generated_answer"
                          /\ Executed("grade_generated_answer")

\* C1 witness: a run that ended right after grading rejected every one of the
\* documents that had been retrieved
C1_Witness ==
    /\ GradeCompleted
    /\ retrieved # <<>>
    /\ state.documents = <<>>
    /\ pc = "END"

\* C2: in the lenient pipeline the documents after grade_documents are an
\* order-preserving subsequence of the retrieved documents, none added, none
\* duplicated, whatever the verdicts and failures, top-3 fallback included.
C2_GradedIsSubsequence ==
    (variant = "lenient" /\ GradeCompleted) =>
        /\ IsSubsequence(state.documents, retrieved)
        /\ NoDuplicates(state.documents)

\* C2 witness: a grading with a throwing call that kept at least two
\* documents and dropped at least one
C2_Witness ==
    /\ variant = "lenient"
    /\ GradeCompleted
    /\ \E i \in DOMAIN docOutcomes : docOutcomes[i].threw
    /\ Len(state.documents) >= 2
    /\ Len(state.documents) < Len(retrieved)

\* C3: in the lenient grader, when n >= 1 documents were retrieved and the
\* classifier rejects every one (no call failing), the graded list is the
\* first min(3, n) retrieved documents in retrieval order; so the graded
\* list is empty only when nothing was retrieved.
C3_TopThreeFallback ==
    (variant = "lenient" /\ GradeCompleted) =>
        /\ (/\ retrieved # <<>>
            /\ \A i \in DOMAIN docOutcomes : SaysNo(docOutcomes[i]))
           => /\ state.documents = SubSeq(retrieved, 1, Min(3, Len(retrieved)))
              /\ Len(retrieved) = 5 => Len(state.documents) = 3
        /\ state.documents = <<>> => retrieved = <<>>

\* C3 witness: five documents retrieved, all rejected, three kept
C3_Witness ==
    /\ variant = "lenient"
    /\ GradeCompleted
    /\ Len(retrieved) = 5
    /\ \A i \in DOMAIN docOutcomes : SaysNo(docOutcomes[i])
    /\ Len(state.documents) = 3

\* C4: in the lenient grader a document whose classifier call throws is kept
\* in the graded list at its original position (after exactly the kept
\* documents that precede it in retrieval order); the failure does not stop
\* the grading of the other documents (every document gets its call) and
\* does not fail the run.
C4_ThrowKeepsDocument ==
    (variant = "lenient" /\ Executed("grade_documents")) =>
        /\ failure.stage # "grade_documents"
        /\ CallsOf("grade_documents") = Len(retrieved)
        /\ DOMAIN docOutcomes = 1..Len(retrieved)
        /\ \A i \in DOMAIN docOutcomes :
              docOutcomes[i].threw =>
                LET j == Cardinality({k \in 1..i : retrieved[k] \in Ran(state.documents)})
                IN /\ j \in 1..Len(state.documents)
                   /\ state.documents[j] = retrieved[i]

\* C4 witness: the first call threw, a later document was rejected and a
\* still later one accepted
C4_Witness ==
    /\ variant = "lenient"
    /\ GradeCompleted
    /\ Len(retrieved) >= 3
    /\ docOutcomes[1].threw
    /\ SaysNo(docOutcomes[2])
    /\ state.documents = <<retrieved[1], retrieved[3]>>

\* C5: in the lenient pipeline, if the model call of grade_generated_answer
\* throws, the run still completes and its final generatedAnswer is exactly
\* the text generate_answer produced.
C5_GraderThrowKeepsAnswer ==
    (variant = "lenient" /\ ansOutcome.threw) =>
        /\ pc = "END"
        /\ failure = NoFailure
        /\ state.generatedAnswer = generated.text

\* C5 witness: a completed lenient run whose answer-grading call threw
C5_Witness ==
    /\ variant = "lenient"
    /\ ansOutcome.threw
    /\ pc = "END"
    /\ state.generatedAnswer # <<>>

\* C6: in the lenient pipeline, when the answer classifier says "no" to a
\* non-empty answer, the final generatedAnswer is the generated text followed
\* by the fixed incompleteness note.
C6_RejectedAnswerGetsNote ==
    (variant = "lenient" /\ SaysNo(ansOutcome)) =>
        /\ pc = "END"
        /\ ~AllWhitespace(generated.text)
        /\ state.generatedAnswer = generated.text \o INCOMPLETE_NOTE
        /\ SubSeq(state.generatedAnswer, 1, Len(generated.text)) = generated.text

\* C6 witness: a completed lenient run whose answer was rejected
C6_Witness ==
    /\ variant = "lenient"
    /\ SaysNo(ansOutcome)
    /\ pc = "END"
    /\ Len(state.generatedAnswer) = Len(generated.text) + 1

\* C7, as claimed: in the lenient pipeline, when generate_answer produced an
\* empty or whitespace-only answer, grade_generated_answer makes no
\* classifier call and the final generatedAnswer is the fixed "I couldn't
\* find a relevant answer" message.
C7_AsClaimed ==
    (/\ variant = "lenient"
     /\ Executed("grade_generated_answer")
     /\ AllWhitespace(generated.text))
    => /\ ~ansOutcome.called
       /\ CallsOf("grade_generated_answer") = 0
       /\ state.generatedAnswer = COULD_NOT_FIND

\* C8, as claimed: in the strict pipeline, when the answer classifier says
\* "no", the final generatedAnswer is the fixed "Sorry, I don't know" message.
C8_AsClaimed ==
    (variant = "strict" /\ pc = "END" /\ SaysNo(ansOutcome)) =>
        state.generatedAnswer = DONT_KNOW

\* C9, as claimed: when retrieval returns no document, the answer delivered
\* by /api/chat and by /api/query of server.ts is the fixed fallback message.
C9_AsClaimed ==
    (/\ handler \in {"chat", "query"}
     /\ Executed("retrieve_documents")
     /\ failure.stage # "retrieve_documents"
     /\ retrieved = <<>>
     /\ response.status = 200)
    => response.answer = COULD_NOT_FIND

\* C10: if the model call of generate_answer throws, the run fails,
\* grade_generated_answer is never executed, and /api/chat answers with an
\* error status and no answer; the response written for that failure carries
\* the message of the error.
C10_GenerationFailureIsFatal ==
    generated.threw =>
        /\ pc = "failed"
        /\ failure.stage = "generate_answer"
        /\ ~Executed("grade_generated_answer")
        /\ (handler = "chat" /\ response # NoResponse) =>
              /\ response.status \in {408, 500}
              /\ response.answer = <<>>
              /\ response.error # ""
              /\ (~timerFired /\ failure.message # <<>>) =>
                    response.message = failure.message

\* C10 witness: /api/chat answered 500 with the message of the error thrown
\* by generate_answer
C10_Witness ==
    /\ handler = "chat"
    /\ generated.threw
    /\ response.status = 500
    /\ response.message = failure.message
    /\ failure.message # <<>>



\* C11, as claimed: in the lenient and in the strict pipeline a classifier
\* call that fails in the document grader or in the answer grader is recovered
\* inside the stage, so no run fails in grade_documents or in
\* grade_generated_answer.
C11_AsClaimed ==
    failure.stage \notin {"grade_documents", "grade_generated_answer"}

FullOrder ==
    <<"retrieve_documents", "create_model", "grade_documents",
      "generate_answer", "grade_generated_answer">>

IsPrefix(s, t) ==
    /\ Len(s) <= Len(t)
    /\ \A i \in 1..Len(s) : s[i] = t[i]

\* the stages executed so far are an initial part of the fixed order, the
\* stage about to run is the next one of that order, and a run is at END only
\* after grade_documents or after grade_generated_answer
StageOrder ==
    /\ IsPrefix(executed, FullOrder)
    /\ NoDuplicates(executed)
    /\ pc \notin {"END", "failed"} => pc = FullOrder[Len(executed) + 1]
    /\ pc = "END" => \/ executed = FirstThree
                     \/ executed = FullOrder

\* C12: every run executes its stages in the order retrieve_documents,
\* create_model, grade_documents, then END or generate_answer,
\* grade_generated_answer, END; each stage at most once and none re-entered;
\* and when every external call returns or throws the run reaches END or
\* fails.
C12_FixedOrderAndTermination == []StageOrder /\ <>Settled

C12_Witness ==
    /\ pc = "END"
    /\ executed = FullOrder
    /\ response = NoResponse

\* C13: within one run the language-model session is instantiated at most
\* once, and grade_documents, generate_answer and grade_generated_answer all
\* use the handle that instantiation returned.
C13_OneSession ==
    /\ sessions <= 1
    /\ \A i \in 1..Len(modelUsed) : modelUsed[i] = sessionHandle(1)
    /\ Len(modelUsed) =
         Cardinality({ n \in Ran(executed) :
                       n \in {"grade_documents", "generate_answer",
                              "grade_generated_answer"} })

C13_Witness ==
    /\ pc = "END"
    /\ sessions = 1
    /\ modelUsed = <<sessionHandle(1), sessionHandle(1), sessionHandle(1)>>

\* C14: when the incoming state carries a pre-built vector store, the
\* retrieve stage searches that store and the run builds no index (no URL
\* load, no chunking, no embedding of documents).
C14_ProvidedStoreIsReused ==
    (initialState(handler).vectorStore # UNDEFINED
     /\ Executed("retrieve_documents")) =>
        /\ runBuilds = 0
        /\ searched \in {UNDEFINED, initialState(handler).vectorStore}
        /\ failure.stage # "retrieve_documents" =>
               searched = initialState(handler).vectorStore

C14_Witness ==
    /\ initialState(handler).vectorStore # UNDEFINED
    /\ searched = initialState(handler).vectorStore
    /\ retrieved # <<>>
    /\ runBuilds = 0
    /\ Settled


Calls == 1..Len(invocations)

\* the call returned a store
GotStore(i) == invocations[i].phase = "returned"

\* call j started after call i had ended; the calls are numbered in the
\* order of their starts, so i < j then
StartedAfter(j, i) == i \in invocations[j].after

SameKey(i, j) == invocations[i].key = invocations[j].key

IsPermutation(s, t) ==
    /\ Len(s) = Len(t)
    /\ \A x \in Ran(s) \cup Ran(t) :
           Cardinality({i \in DOMAIN s : s[i] = x})
             = Cardinality({i \in DOMAIN t : t[i] = x})

SameSources(i, j) ==
    /\ IsPermutation(invocations[i].request.urls, invocations[j].request.urls)
    /\ IsPermutation(invocations[i].request.uploadIds,
                     invocations[j].request.uploadIds)

\* the chunking buildVectorStore resolves for the request of call i
Resolved(i) ==
    LET cfg == invocations[i].request.ragConfig
        chunkSize == resolveChunkSize(cfg, env, avgDocLength)
    IN  <<chunkSize, resolveChunkOverlap(cfg, env, chunkSize)>>

\* C15, as claimed: of two calls with identical urls, upload ids and
\* ragConfig, the second starting after the first returned, the second
\* returns the identical store object and performs no build.
C15_AsClaimed ==
    \A i, j \in Calls :
        (/\ invocations[i].request = invocations[j].request
         /\ GotStore(i) /\ StartedAfter(j, i) /\ GotStore(j)) =>
            /\ invocations[j].store = invocations[i].store
            /\ ~invocations[j].built

\* C15, amended: the second call performs no build and returns a completed
\* store built for the same key; it is the store the first call returned
\* unless a third call for the key, started before the first returned, stored
\* its own build before the second call started, and then it is that store.
C15_SecondCallReusesCache ==
    \A i, j \in Calls :
        (/\ invocations[i].request = invocations[j].request
         /\ GotStore(i) /\ StartedAfter(j, i)) =>
            /\ GotStore(j)
            /\ ~invocations[j].built
            /\ stores[invocations[j].store].complete
            /\ stores[invocations[j].store].key = invocations[i].key
            /\ \/ invocations[j].store = invocations[i].store
               \/ \E k \in Calls \ {i, j} :
                    /\ SameKey(k, i)
                    /\ invocations[k].built /\ GotStore(k)
                    /\ ~StartedAfter(k, i)
                    /\ StartedAfter(j, k)
                    /\ invocations[j].store = invocations[k].store

C15_Witness ==
    \E i, j \in Calls :
        /\ invocations[i].request = invocations[j].request
        /\ invocations[i].built /\ GotStore(i)
        /\ StartedAfter(j, i) /\ GotStore(j)
        /\ ~invocations[j].built
        /\ invocations[j].store = invocations[i].store

\* C16: permutations of the same urls and of the same upload ids, with the
\* same ragConfig, give the same cache key, and a call that starts after a
\* call with the permuted lists returned its store gets that store from the
\* cache.
C16_KeyIgnoresOrder ==
    \A i, j \in Calls :
        (/\ i < j
         /\ SameSources(i, j)
         /\ invocations[i].request.ragConfig = invocations[j].request.ragConfig) =>
            /\ SameKey(i, j)
            /\ (GotStore(i) /\ StartedAfter(j, i)) =>
                   /\ invocations[j].cachedAtStart = invocations[i].store
                   /\ invocations[j].store = invocations[i].store
                   /\ ~invocations[j].built

C16_Witness ==
    \E i, j \in Calls :
        /\ SameSources(i, j)
        /\ invocations[i].request.urls # invocations[j].request.urls
        /\ invocations[i].request.uploadIds # invocations[j].request.uploadIds
        /\ invocations[i].request.ragConfig = invocations[j].request.ragConfig
        /\ invocations[i].built /\ GotStore(i) /\ StartedAfter(j, i)
        /\ invocations[j].store = invocations[i].store
        /\ ~invocations[j].built

\* C17: for the same sources, two requests that differ in chunkSize have
\* different cache keys and never get the same store, and the second of two
\* requests builds its own index.
C17_ChunkSizeChangesKey ==
    \A i, j \in Calls :
        (/\ i < j
         /\ SameSources(i, j)
         /\ invocations[i].request.ragConfig.chunkSize
              # invocations[j].request.ragConfig.chunkSize) =>
            /\ ~SameKey(i, j)
            /\ (invocations[i].store # 0 /\ invocations[j].store # 0) =>
                   invocations[i].store # invocations[j].store
            /\ (i = 1 /\ j = 2) => invocations[j].built

C17_Witness ==
    /\ Len(invocations) >= 2
    /\ SameSources(1, 2)
    /\ invocations[1].request.ragConfig.chunkSize = <<700>>
    /\ invocations[2].request.ragConfig.chunkSize = <<400>>
    /\ invocations[1].built /\ GotStore(1) /\ StartedAfter(2, 1)
    /\ invocations[2].built /\ GotStore(2)
    /\ invocations[2].store # invocations[1].store

EntriesAreComplete(cache, objects) ==
    \A key \in DOMAIN cache :
        /\ cache[key] \in DOMAIN objects
        /\ objects[cache[key]].complete
        /\ objects[cache[key]].key = key

\* C19: in every step the entries of the cache are stores whose build
\* completed, each under the key it was built for, and a step in which a
\* build fails (a page load or an embedding) leaves the cache as it was.
C19_OnlyCompleteStoresCached ==
    [][ /\ EntriesAreComplete(vectorStoreCache', stores')
        /\ \A i \in Calls :
             (invocations[i].phase # "failed" /\ invocations'[i].phase = "failed")
                 => vectorStoreCache' = vectorStoreCache ]_vars

C19_Witness ==
    \E i, j \in Calls :
        /\ invocations[i].phase = "failed" /\ invocations[i].store # 0
        /\ invocations[j].phase = "failed" /\ invocations[j].store = 0
        /\ DOMAIN vectorStoreCache = {invocations[i].key}

\* C20, as claimed: the index of a key is built at most once, and all calls
\* for the key return the same store object.
C20_AsClaimed ==
    \A i, j \in Calls :
        SameKey(i, j) =>
            /\ (invocations[i].built /\ invocations[j].built) => i = j
            /\ (GotStore(i) /\ GotStore(j)) =>
                   invocations[i].store = invocations[j].store

\* C20, amended: a call that finds an entry for its key returns that entry
\* and builds nothing, so no build for a key starts after a call for it
\* returned a store; a call that finds no entry builds its own index, and the
\* entry of a key is always the store of one of the builds that returned.
C20_BuildOnlyOnMiss ==
    /\ \A i \in Calls :
         IF invocations[i].cachedAtStart # 0
         THEN /\ ~invocations[i].built
              /\ GotStore(i)
              /\ invocations[i].store = invocations[i].cachedAtStart
         ELSE invocations[i].built
    /\ \A i, j \in Calls :
         (SameKey(i, j) /\ GotStore(i) /\ StartedAfter(j, i)) =>
             ~invocations[j].built
    /\ \A key \in DOMAIN vectorStoreCache :
         \E i \in Calls :
             /\ invocations[i].key = key
             /\ invocations[i].built /\ GotStore(i)
             /\ invocations[i].store = vectorStoreCache[key]

C20_Witness ==
    \E i, j, k \in Calls :
        /\ SameKey(i, j) /\ SameKey(j, k)
        /\ invocations[i].built /\ GotStore(i)
        /\ invocations[j].built /\ GotStore(j)
        /\ invocations[i].store # invocations[j].store
        /\ StartedAfter(k, i) /\ StartedAfter(k, j)
        /\ ~invocations[k].built
        /\ invocations[k].store = vectorStoreCache[invocations[k].key]

(* ---- the handlers of server.ts ---------------------------------------- *)
\* the most URLs the model puts in a request body
MaxUrls == 4

\* the most awaited calls of a graph run or of the question generation the
\* model follows one by one
MaxSteps == 2

\* server.ts:376 and 197: urls.length > 3
URL_LIMIT == 3

NO_SOURCES == "Please provide at least one URL or uploaded document"
NO_MESSAGE == "Please provide a message"
NO_QUESTION == "Please provide a question"
TOO_MANY_URLS == "Too many URLs. Please provide a maximum of 3 URLs at a time."

\* server.ts:387
greetings ==
    { <<"h","i">>, <<"h","e","l","l","o">>, <<"h","e","y">>,
      <<"g","r","e","e","t","i","n","g","s">>,
      <<"g","o","o","d"," ","m","o","r","n","i","n","g">>,
      <<"g","o","o","d"," ","a","f","t","e","r","n","o","o","n">>,
      <<"g","o","o","d"," ","e","v","e","n","i","n","g">> }

\* the keys of simpleResponses, server.ts:411-418
simpleResponses ==
    { <<"h","o","w"," ","a","r","e"," ","y","o","u">>,
      <<"h","o","w"," ","a","r","e"," ","y","o","u"," ","d","o","i","n","g">>,
      <<"t","h","a","n","k","s">>, <<"t","h","a","n","k"," ","y","o","u">>,
      <<"b","y","e">>, <<"g","o","o","d","b","y","e">> }

startsWith(s, prefix) ==
    Len(prefix) <= Len(s) /\ SubSeq(s, 1, Len(prefix)) = prefix

\* server.ts:388-392
isGreeting(normalizedMessage) ==
    \E greeting \in greetings :
        \/ normalizedMessage = greeting
        \/ startsWith(normalizedMessage, greeting \o <<" ">>)
        \/ normalizedMessage = greeting \o <<"!">>

\* res.status(400).json({ error })
badRequest(error) ==
    [status |-> 400, answer |-> <<>>, documents |-> <<>>, error |-> error,
     message |-> <<>>]

\* server.ts:401-405 and 420-426: a canned reply, no documents
cannedReply(kind) ==
    [status |-> 200, answer |-> <<kind>>, documents |-> <<>>, error |-> "",
     message |-> <<>>]

\* server.ts:366, 192 and 540: neither urls nor uploadIds names a source
noSources(b) == Len(b.urls) = 0 /\ Len(b.uploadIds) = 0

\* server.ts:371 and 543: !message || message.trim() === ""
blank(message) == message = <<>> \/ trim(message) = <<>>

\* a validation of /api/chat without the limit of URLs
chatValidation_NoUrlCap(b) ==
    IF noSources(b) THEN NO_SOURCES
    ELSE IF blank(b.message) THEN NO_MESSAGE
    ELSE "ok"

\* server.ts:366-382: the three validations of /api/chat, in order
chatValidation(b) ==
    IF noSources(b) THEN NO_SOURCES
    ELSE IF blank(b.message) THEN NO_MESSAGE
    ELSE IF Len(b.urls) > URL_LIMIT THEN TOO_MANY_URLS
    ELSE "ok"

\* server.ts:540-545: the two validations of /api/query
queryValidation(b) ==
    IF noSources(b) THEN NO_SOURCES
    ELSE IF blank(b.message) THEN NO_QUESTION
    ELSE "ok"

\* server.ts:192-200: the two validations of /api/sample-questions
sampleValidation(b) ==
    IF noSources(b) THEN NO_SOURCES
    ELSE IF Len(b.urls) > URL_LIMIT THEN TOO_MANY_URLS
    ELSE "ok"

\* server.ts:384-426: greetings and small talk are answered without the index
conversational(message) ==
    LET normalizedMessage == toLowerCase(trim(message))
    IN IF isGreeting(normalizedMessage) THEN "greeting"
       ELSE IF normalizedMessage \in simpleResponses THEN "simple"
       ELSE "none"

\* server.ts:336-337 and 465: the deadlines in milliseconds
PRODUCTION_TIMEOUT_MS == 25000
DEVELOPMENT_TIMEOUT_MS == 120000
FIRST_LOAD_TIMEOUT_MS == 180000
FIRST_LOAD_GRAPH_TIMEOUT_MS == 60000

PRODUCTION == <<"production">>

\* server.ts:336
DEFAULT_TIMEOUT_MS(e) ==
    IF e.nodeEnv = PRODUCTION THEN PRODUCTION_TIMEOUT_MS
    ELSE DEVELOPMENT_TIMEOUT_MS

\* a deadline of the index that is always the long one
timeoutMs_AlwaysFirstLoad(firstLoad, e) == FIRST_LOAD_TIMEOUT_MS

\* server.ts:443
timeoutMs(firstLoad, e) ==
    IF firstLoad THEN FIRST_LOAD_TIMEOUT_MS ELSE DEFAULT_TIMEOUT_MS(e)

\* server.ts:465
graphTimeoutMs(firstLoad, e) ==
    IF firstLoad THEN FIRST_LOAD_GRAPH_TIMEOUT_MS ELSE DEFAULT_TIMEOUT_MS(e)

\* getOrCreateVectorStore up to its first await (server.ts:303-321): a hit
\* returns the cached store, a miss starts buildVectorStore
startStoreCall(hit) ==
    [status |-> IF hit THEN "resolved" ELSE "building", message |-> <<>>]

\* the counters after the call of getOrCreateVectorStore started
afterStoreCall(e, hit) ==
    [e EXCEPT !.lookups = @ + 1, !.builds = IF hit THEN @ ELSE @ + 1]

Endpoints == {"chat", "query", "sample"}

\* message of /api/chat, question of /api/query: missing or empty, blank,
\* greetings, small talk and questions about the sources
Messages ==
    { <<>>, <<" ">>, <<"h","E","Y","!">>, <<" ","b","Y","E">>,
      <<"h","i"," ","w","h","y","?">>, <<"w","h","y","?">> }

Bodies ==
    { [urls |-> [i \in 1..n |-> i], uploadIds |-> u, message |-> m] :
        n \in 0..MaxUrls, u \in {<<>>, <<"file">>}, m \in Messages }

\* a request arrives at one of the three endpoints; the index of its sources
\* is cached or not
ServerInit ==
    /\ PipelineIdle
    /\ UploadIdle
    /\ env \in {NoEnv, [NoEnv EXCEPT !.nodeEnv = PRODUCTION]}
    /\ avgDocLength = 0
    /\ vectorStoreCache = <<>>
    /\ invocations = <<>>
    /\ stores = <<>>
    /\ ConfigIdle
    /\ endpoint \in Endpoints
    /\ body \in Bodies
    /\ hstep = "received"
    /\ isFirstLoad = FALSE
    /\ timeoutId = "none"
    /\ expired = {}
    /\ responses = <<>>
    /\ storeCall = NoWork
    /\ work = NoWork
    /\ cached \in BOOLEAN
    /\ effects = NoEffects

\* sendResponse of /api/chat (server.ts:341-351) and res.json of the others:
\* the handler answers and returns
respond(r) ==
    /\ responses' = Append(responses, r)
    /\ hstep' = "done"

\* POST /api/chat up to its first await (server.ts:362-457)
ChatReceive ==
    /\ endpoint = "chat"
    /\ hstep = "received"
    /\ IF chatValidation(body) # "ok"
       THEN /\ respond(badRequest(chatValidation(body)))
            /\ UNCHANGED <<isFirstLoad, timeoutId, storeCall, effects>>
       ELSE IF conversational(body.message) # "none"
       THEN /\ respond(cannedReply(conversational(body.message)))
            /\ UNCHANGED <<isFirstLoad, timeoutId, storeCall, effects>>
       ELSE /\ isFirstLoad' = ~cached
            /\ timeoutId' = "store"
            /\ storeCall' = startStoreCall(cached)
            /\ effects' = [afterStoreCall(effects, cached)
                              EXCEPT !.lookups = @ + 1, !.timers = @ + 1,
                                     !.deadlines =
                                        Append(@, timeoutMs(~cached, env))]
            /\ hstep' = "store"
            /\ UNCHANGED responses
    /\ UNCHANGED <<endpoint, body, expired, work, cached>>
    /\ UNCHANGED <<pipelineVars, cacheVars, configVars, uploadVars>>

\* POST /api/query up to its first await (server.ts:536-546)
QueryReceive ==
    /\ endpoint = "query"
    /\ hstep = "received"
    /\ IF queryValidation(body) # "ok"
       THEN /\ respond(badRequest(queryValidation(body)))
            /\ UNCHANGED <<storeCall, effects>>
       ELSE /\ storeCall' = startStoreCall(cached)
            /\ effects' = afterStoreCall(effects, cached)
            /\ hstep' = "store"
            /\ UNCHANGED responses
    /\ UNCHANGED <<endpoint, body, isFirstLoad, timeoutId, expired, work,
                   cached>>
    /\ UNCHANGED <<pipelineVars, cacheVars, configVars, uploadVars>>

\* POST /api/sample-questions up to its first await (server.ts:188-204)
SampleReceive ==
    /\ endpoint = "sample"
    /\ hstep = "received"
    /\ IF sampleValidation(body) # "ok"
       THEN /\ respond(badRequest(sampleValidation(body)))
            /\ UNCHANGED <<storeCall, effects>>
       ELSE /\ storeCall' = startStoreCall(cached)
            /\ effects' = afterStoreCall(effects, cached)
            /\ hstep' = "store"
            /\ UNCHANGED responses
    /\ UNCHANGED <<endpoint, body, isFirstLoad, timeoutId, expired, work,
                   cached>>
    /\ UNCHANGED <<pipelineVars, cacheVars, configVars, uploadVars>>

\* buildVectorStore returns and the store is cached (server.ts:321-329),
\* whether or not the handler still waits for it
BuildResolves ==
    /\ storeCall.status = "building"
    /\ storeCall' = [storeCall EXCEPT !.status = "resolved"]
    /\ cached' = TRUE
    /\ effects' = [effects EXCEPT !.writes = @ + 1]
    /\ UNCHANGED <<endpoint, body, hstep, isFirstLoad, timeoutId, expired,
                   responses, work>>
    /\ UNCHANGED <<pipelineVars, cacheVars, configVars, uploadVars>>

\* buildVectorStore throws: nothing is cached
BuildRejects ==
    /\ storeCall.status = "building"
    /\ \E c \in Causes :
            storeCall' = [status |-> "rejected", message |-> c]
    /\ UNCHANGED <<endpoint, body, hstep, isFirstLoad, timeoutId, expired,
                   responses, work, cached, effects>>
    /\ UNCHANGED <<pipelineVars, cacheVars, configVars, uploadVars>>

\* a call of the build (a page load, the embedding service) never returns
BuildHangs ==
    /\ storeCall.status = "building"
    /\ storeCall' = [storeCall EXCEPT !.status = "hung"]
    /\ UNCHANGED <<endpoint, body, hstep, isFirstLoad, timeoutId, expired,
                   responses, work, cached, effects>>
    /\ UNCHANGED <<pipelineVars, cacheVars, configVars, uploadVars>>

\* /api/chat after the race of the store (server.ts:453-484): the timer of
\* the store is cleared, the timer of the graph is armed, graph.invoke starts;
\* a rejected store goes to the catch block (server.ts:507-532)
ChatStoreSettled ==
    /\ endpoint = "chat"
    /\ hstep = "store"
    /\ storeCall.status \in {"resolved", "rejected"}
    /\ IF storeCall.status = "resolved"
       THEN /\ timeoutId' = "graph"
            /\ effects' = [effects EXCEPT
                              !.timers = @ + 1,
                              !.deadlines =
                                 Append(@, graphTimeoutMs(isFirstLoad, env))]
            /\ work' = [status |-> "running", message |-> <<>>]
            /\ hstep' = "work"
            /\ UNCHANGED responses
       ELSE /\ timeoutId' = "none"
            /\ respond(chatFailure(storeCall.message))
            /\ UNCHANGED <<effects, work>>
    /\ UNCHANGED <<endpoint, body, isFirstLoad, expired, storeCall, cached>>
    /\ UNCHANGED <<pipelineVars, cacheVars, configVars, uploadVars>>

\* /api/query after the store (server.ts:546-561)
QueryStoreSettled ==
    /\ endpoint = "query"
    /\ hstep = "store"
    /\ storeCall.status \in {"resolved", "rejected"}
    /\ IF storeCall.status = "resolved"
       THEN /\ work' = [status |-> "running", message |-> <<>>]
            /\ hstep' = "work"
            /\ UNCHANGED responses
       ELSE /\ respond(queryFailure(storeCall.message))
            /\ UNCHANGED work
    /\ UNCHANGED <<endpoint, body, isFirstLoad, timeoutId, expired,
                   storeCall, cached, effects>>
    /\ UNCHANGED <<pipelineVars, cacheVars, configVars, uploadVars>>

\* /api/sample-questions after the store (server.ts:204-209 and 264-270):
\* the catch block answers 200 with the default questions
SampleStoreSettled ==
    /\ endpoint = "sample"
    /\ hstep = "store"
    /\ storeCall.status \in {"resolved", "rejected"}
    /\ IF storeCall.status = "resolved"
       THEN /\ work' = [status |-> "running", message |-> <<>>]
            /\ hstep' = "work"
            /\ UNCHANGED responses
       ELSE /\ respond(cannedReply("default questions"))
            /\ UNCHANGED work
    /\ UNCHANGED <<endpoint, body, isFirstLoad, timeoutId, expired,
                   storeCall, cached, effects>>
    /\ UNCHANGED <<pipelineVars, cacheVars, configVars, uploadVars>>

\* an awaited call of the graph run (or the search and the model call of the
\* question generation) returns, whether or not the handler still waits
WorkStep ==
    /\ work.status = "running"
    /\ effects.stages < MaxSteps
    /\ effects' = [effects EXCEPT !.stages = @ + 1]
    /\ UNCHANGED <<endpoint, body, hstep, isFirstLoad, timeoutId, expired,
                   responses, storeCall, work, cached>>
    /\ UNCHANGED <<pipelineVars, cacheVars, configVars, uploadVars>>

\* the run returns its result
WorkResolves ==
    /\ work.status = "running"
    /\ effects.stages >= 1
    /\ work' = [work EXCEPT !.status = "resolved"]
    /\ UNCHANGED <<endpoint, body, hstep, isFirstLoad, timeoutId, expired,
                   responses, storeCall, cached, effects>>
    /\ UNCHANGED <<pipelineVars, cacheVars, configVars, uploadVars>>

\* a call of the run throws
WorkRejects ==
    /\ work.status = "running"
    /\ \E c \in Causes : work' = [status |-> "rejected", message |-> c]
    /\ UNCHANGED <<endpoint, body, hstep, isFirstLoad, timeoutId, expired,
                   responses, storeCall, cached, effects>>
    /\ UNCHANGED <<pipelineVars, cacheVars, configVars, uploadVars>>

\* a call of the run never returns
WorkHangs ==
    /\ work.status = "running"
    /\ work' = [work EXCEPT !.status = "hung"]
    /\ UNCHANGED <<endpoint, body, hstep, isFirstLoad, timeoutId, expired,
                   responses, storeCall, cached, effects>>
    /\ UNCHANGED <<pipelineVars, cacheVars, configVars, uploadVars>>

\* an answer sent without clearing the timer of the graph
ChatWorkSettled_LeavesTimer ==
    /\ endpoint = "chat"
    /\ hstep = "work"
    /\ work.status \in {"resolved", "rejected"}
    /\ respond(IF work.status = "resolved" THEN cannedReply("answer")
               ELSE chatFailure(work.message))
    /\ UNCHANGED <<endpoint, body, isFirstLoad, timeoutId, expired, storeCall,
                   work, cached, effects>>
    /\ UNCHANGED <<pipelineVars, cacheVars, configVars, uploadVars>>

\* /api/chat after the race of the graph (server.ts:481-532)
ChatWorkSettled ==
    /\ endpoint = "chat"
    /\ hstep = "work"
    /\ work.status \in {"resolved", "rejected"}
    /\ timeoutId' = "none"
    /\ respond(IF work.status = "resolved" THEN cannedReply("answer")
               ELSE chatFailure(work.message))
    /\ UNCHANGED <<endpoint, body, isFirstLoad, expired, storeCall, work,
                   cached, effects>>
    /\ UNCHANGED <<pipelineVars, cacheVars, configVars, uploadVars>>

\* /api/query after graph.invoke (server.ts:547-561)
QueryWorkSettled ==
    /\ endpoint = "query"
    /\ hstep = "work"
    /\ work.status \in {"resolved", "rejected"}
    /\ respond(IF work.status = "resolved" THEN cannedReply("answer")
               ELSE queryFailure(work.message))
    /\ UNCHANGED <<endpoint, body, isFirstLoad, timeoutId, expired,
                   storeCall, work, cached, effects>>
    /\ UNCHANGED <<pipelineVars, cacheVars, configVars, uploadVars>>

\* /api/sample-questions after the search and the model call
\* (server.ts:206-270): generated questions, or the default ones from the
\* catch block
SampleWorkSettled ==
    /\ endpoint = "sample"
    /\ hstep = "work"
    /\ work.status \in {"resolved", "rejected"}
    /\ respond(IF work.status = "resolved" THEN cannedReply("questions")
               ELSE cannedReply("default questions"))
    /\ UNCHANGED <<endpoint, body, isFirstLoad, timeoutId, expired,
                   storeCall, work, cached, effects>>
    /\ UNCHANGED <<pipelineVars, cacheVars, configVars, uploadVars>>

\* the promise the handler of /api/chat races its timer against
raced == IF hstep = "store" THEN storeCall ELSE work

\* createTimeoutPromise (server.ts:353-360): the armed timer fires before the
\* raced call settled; the race rejects and the catch block answers
\* (server.ts:507-532). Nothing stops the call that lost the race.
TimerExpires ==
    /\ endpoint = "chat"
    /\ hstep \in {"store", "work"}
    /\ timeoutId # "none"
    /\ raced.status \notin {"resolved", "rejected"}
    /\ expired' = expired \cup {timeoutId}
    /\ timeoutId' = "none"
    /\ respond(chatFailure(TIMEOUT_MESSAGE))
    /\ UNCHANGED <<endpoint, body, isFirstLoad, storeCall, work, cached,
                   effects>>
    /\ UNCHANGED <<pipelineVars, cacheVars, configVars, uploadVars>>

ServerNext ==
    \/ ChatReceive
    \/ QueryReceive
    \/ SampleReceive
    \/ BuildResolves
    \/ BuildRejects
    \/ BuildHangs
    \/ ChatStoreSettled
    \/ QueryStoreSettled
    \/ SampleStoreSettled
    \/ WorkStep
    \/ WorkResolves
    \/ WorkRejects
    \/ WorkHangs
    \/ ChatWorkSettled
    \/ QueryWorkSettled
    \/ SampleWorkSettled
    \/ TimerExpires

ServerSpec == ServerInit /\ [][ServerNext]_vars

\* the event loop runs every continuation and every timer that is due; a
\* call that hangs is a step of its own, after which the call does nothing
ServerFairSpec == ServerSpec /\ WF_vars(ServerNext)

(* ---- ragConfig: normalisation, chunking and the retriever ------------- *)
\* a value of a field of req.body.ragConfig as JSON carries it
absent == [kind |-> "undefined", n |-> 0, s |-> <<>>]
null == [kind |-> "null", n |-> 0, s |-> <<>>]
number(n) == [kind |-> "number", n |-> n, s |-> <<>>]
string(s) == [kind |-> "string", n |-> 0, s |-> s]

Digits == {digit(d) : d \in 0..9}

digitValue(c) == CHOOSE d \in 0..9 : digit(d) = c

RECURSIVE digitsValue(_)
digitsValue(s) ==
    IF s = <<>> THEN 0
    ELSE 10 * digitsValue(SubSeq(s, 1, Len(s) - 1)) + digitValue(s[Len(s)])

\* Number(value) of server.ts:140 followed by Number.isFinite: null and the
\* blank string are 0, a string of digits is its value, undefined and any
\* other string are NaN
toNumber(value) ==
    CASE value.kind = "number" -> <<value.n>>
      [] value.kind = "null" -> <<0>>
      [] value.kind = "string" ->
            IF trim(value.s) = <<>> THEN <<0>>
            ELSE IF \A i \in 1..Len(trim(value.s)) : trim(value.s)[i] \in Digits
                 THEN <<digitsValue(trim(value.s))>>
                 ELSE UNSET
      [] OTHER -> UNSET

\* the undefined ragConfig: every ragConfig?.field is undefined
NoRagConfig ==
    [chunkSize |-> UNSET, chunkOverlap |-> UNSET, retrieverStrategy |-> UNSET,
     retrieverK |-> UNSET, retrieverFetchK |-> UNSET,
     retrieverLambda |-> UNSET]

\* server.ts:134-160
normalizeRagConfig(input) ==
    IF ~input.given THEN NoRagConfig
    ELSE [chunkSize |-> toNumber(input.chunkSize),
          chunkOverlap |-> toNumber(input.chunkOverlap),
          retrieverStrategy |-> IF input.retrieverStrategy.kind = "string"
                                THEN <<input.retrieverStrategy.s>>
                                ELSE UNSET,
          retrieverK |-> toNumber(input.retrieverK),
          retrieverFetchK |-> toNumber(input.retrieverFetchK),
          retrieverLambda |-> toNumber(input.retrieverLambda)]

\* rag-chain.ts:258-260: the defaults of the retriever; lambda is counted in
\* tenths, 6 is 0.6
DEFAULT_K == 12
DEFAULT_FETCH_K == 40
DEFAULT_LAMBDA == 6

MMR == <<"m", "m", "r">>
SIMILARITY == <<"s", "i", "m", "i", "l", "a", "r", "i", "t", "y">>

\* a ?? b of two optional values
orElse(a, b) == IF a # UNSET THEN a ELSE b

\* rag-chain.ts:257-271: the configuration handed to asRetriever
getRetriever(ragConfig, e) ==
    LET k == orElse(ragConfig.retrieverK, orElse(e.retrieverK, <<DEFAULT_K>>))[1]
        fetchK == orElse(ragConfig.retrieverFetchK,
                         orElse(e.retrieverFetchK, <<DEFAULT_FETCH_K>>))[1]
        lambda == orElse(ragConfig.retrieverLambda,
                         orElse(e.retrieverLambda, <<DEFAULT_LAMBDA>>))[1]
        searchType == toLowerCase(orElse(ragConfig.retrieverStrategy,
                          orElse(e.retrieverStrategy, <<SIMILARITY>>))[1])
    IN IF searchType = MMR
       THEN [k |-> k, searchType |-> <<MMR>>,
             searchKwargs |-> <<[fetchK |-> fetchK, lambda |-> lambda]>>]
       ELSE [k |-> k, searchType |-> UNSET, searchKwargs |-> UNSET]

\* rag-chain.ts:208-230: the two numbers handed to the text splitter
splitterOptions(ragConfig, e, avg) ==
    [chunkSize |-> resolveChunkSize(ragConfig, e, avg),
     chunkOverlap |-> resolveChunkOverlap(ragConfig, e,
                          resolveChunkSize(ragConfig, e, avg))]

RawSizes ==
    { absent, null, number(0), number(400), number(0 - 5),
      string(<<"5", "0", "0">>), string(<<"a">>) }

RawOverlaps == { absent, number(0), number(500), number(0 - 1) }

\* ragConfig objects that set the chunking, and objects that set the retriever
RawConfigs ==
    [given : {TRUE}, chunkSize : RawSizes, chunkOverlap : RawOverlaps,
     retrieverStrategy : {absent}, retrieverK : {absent},
     retrieverFetchK : {absent}, retrieverLambda : {absent}]
    \cup
    [given : {TRUE}, chunkSize : {absent}, chunkOverlap : {absent},
     retrieverStrategy : {absent, number(1), string(MMR),
                          string(<<"M", "M", "R">>), string(SIMILARITY)},
     retrieverK : {absent, number(50), number(5)},
     retrieverFetchK : {absent, number(20)},
     retrieverLambda : {absent, number(5), number(15), number(0 - 5)}]
    \cup
    {[given |-> FALSE, chunkSize |-> absent, chunkOverlap |-> absent,
      retrieverStrategy |-> absent, retrieverK |-> absent,
      retrieverFetchK |-> absent, retrieverLambda |-> absent]}

\* process.env: nothing set, the chunking set, the retriever switched to mmr
ConfigEnvs ==
    { NoEnv,
      [NoEnv EXCEPT !.chunkSize = <<1000>>],
      [NoEnv EXCEPT !.chunkSize = <<1000>>, !.chunkOverlap = <<100>>],
      [NoEnv EXCEPT !.retrieverStrategy = <<MMR>>, !.retrieverK = <<8>>] }

\* mean document lengths on both sides of the two thresholds; 0 is the mean
\* of no documents (rag-chain.ts:206)
ConfigAvgDocLengths == {0, 1499, 1500, 3000, 6000, 6001, 7000}

ConfigInit ==
    /\ PipelineIdle
    /\ UploadIdle
    /\ ServerIdle
    /\ rawConfig \in RawConfigs
    /\ env \in ConfigEnvs
    /\ avgDocLength \in ConfigAvgDocLengths
    /\ vectorStoreCache = <<>>
    /\ invocations = <<>>
    /\ stores = <<>>
    /\ chunking = <<>>
    /\ retrieverConfig = <<>>
    /\ conversationHistory = <<>>
    /\ prompt = <<>>

\* buildVectorStore creates its text splitter (rag-chain.ts:208-230) for the
\* ragConfig the handler normalised
CreateTextSplitter ==
    /\ chunking = <<>>
    /\ chunking' = <<splitterOptions(normalizeRagConfig(rawConfig), env,
                                     avgDocLength)>>
    /\ UNCHANGED <<rawConfig, retrieverConfig, conversationHistory,
                   prompt>>
    /\ UNCHANGED <<pipelineVars, cacheVars, serverVars, uploadVars>>

\* retrieve_documents creates its retriever (rag-chain.ts:257-271)
CreateRetriever ==
    /\ retrieverConfig = <<>>
    /\ retrieverConfig' = <<getRetriever(normalizeRagConfig(rawConfig), env)>>
    /\ UNCHANGED <<rawConfig, chunking, conversationHistory, prompt>>
    /\ UNCHANGED <<pipelineVars, cacheVars, serverVars, uploadVars>>

ConfigNext == CreateTextSplitter \/ CreateRetriever

ConfigSpec == ConfigInit /\ [][ConfigNext]_vars

(* ---- the conversation in the prompt of generate_answer ----------------- *)
\* the longest conversationHistory of the model
MaxTurns == 7

\* rag-chain.ts:94: slice(-6)
HISTORY_WINDOW == 6

Max(a, b) == IF a > b THEN a ELSE b

\* a window that keeps the first turns
slice_FromStart(list, start) ==
    SubSeq(list, 1, IF Len(list) < 0 - start THEN Len(list) ELSE 0 - start)

\* Array.prototype.slice(start) of a negative start: from
\* max(length + start, 0) to the end
slice(list, start) ==
    SubSeq(list, Max(Len(list) + start, 0) + 1, Len(list))

USER == <<"U", "s", "e", "r">>
ASSISTANT == <<"A", "s", "s", "i", "s", "t", "a", "n", "t">>
NEWLINE == <<"\n">>
PREVIOUS_CONVERSATION ==
    <<"P","r","e","v","i","o","u","s"," ","c","o","n","v","e","r","s","a",
      "t","i","o","n",":","\n">>

\* rag-chain.ts:95: one line of the conversation
turnLine(msg) ==
    (IF msg.role = "user" THEN USER ELSE ASSISTANT) \o <<":", " ">>
        \o msg.content

\* rag-chain.ts:93-97
historyContextOf(history) ==
    IF Len(history) > 0
    THEN join([i \in 1..Len(slice(history, 0 - HISTORY_WINDOW)) |->
                    turnLine(slice(history, 0 - HISTORY_WINDOW)[i])], NEWLINE)
    ELSE <<>>

\* rag-chain.ts:103: the part of the template before "Context from
\* documents"
conversationSection(historyContext) ==
    IF historyContext # <<>>
    THEN PREVIOUS_CONVERSATION \o historyContext \o NEWLINE \o NEWLINE
    ELSE <<>>

\* the turns a client sends: a question or an answer of one word
Turns == [role : {"user", "assistant"}, content : {<<"a">>, <<"b">>}]

RECURSIVE Histories(_)
Histories(n) ==
    IF n = 0 THEN { <<>> }
    ELSE Histories(n - 1)
            \cup { Append(h, t) : h \in { g \in Histories(n - 1) : Len(g) = n - 1 },
                                  t \in Turns }

PromptInit ==
    /\ PipelineIdle
    /\ UploadIdle
    /\ CacheIdle
    /\ ServerIdle
    /\ rawConfig = "none"
    /\ chunking = <<>>
    /\ retrieverConfig = <<>>
    /\ conversationHistory \in Histories(MaxTurns)
    /\ prompt = <<>>

\* generateAnswer builds its prompt (rag-chain.ts:87-116)
BuildPrompt ==
    /\ prompt = <<>>
    /\ prompt' = <<[historyContext |-> historyContextOf(conversationHistory),
                    section |-> conversationSection(
                                    historyContextOf(conversationHistory))]>>
    /\ UNCHANGED <<rawConfig, chunking, retrieverConfig, conversationHistory>>
    /\ UNCHANGED <<pipelineVars, cacheVars, serverVars, uploadVars>>

PromptNext == BuildPrompt

PromptSpec == PromptInit /\ [][PromptNext]_vars

(* ---- the upload registry and the requests that name uploads ------------ *)
\* the most upload ids the model generates, and so the most files of one
\* POST /api/upload
MaxIds == 2

\* the most requests that search an index
MaxServed == 2

\* the files of a request by what the handler does with them: text/* and
\* application/json are read, a pdf is parsed (a corrupt one makes pdfParse
\* throw), any other type is refused
FileKinds == {"text", "pdf", "corrupt pdf", "image"}

UNSUPPORTED == "Unsupported file type"
UPLOAD_FAILED == "Failed to upload files"
NO_FILES == "Please upload at least one file"

\* server.ts:88-112: the files are read and stored one after the other; the
\* first file that cannot be read ends the request
RECURSIVE uploadLoop(_, _, _, _)
uploadLoop(files, i, store, n) ==
    IF i > Len(files)
    THEN [status |-> 200, error |-> "", store |-> store, issued |-> n]
    ELSE IF files[i] = "corrupt pdf"
    THEN [status |-> 500, error |-> UPLOAD_FAILED, store |-> store, issued |-> n]
    ELSE IF files[i] \notin {"text", "pdf"}
    THEN [status |-> 400, error |-> UNSUPPORTED, store |-> store, issued |-> n]
    ELSE uploadLoop(files, i + 1, store \cup {n + 1}, n + 1)

\* server.ts:80-118
upload(files, store, n) ==
    IF Len(files) = 0
    THEN [status |-> 400, error |-> NO_FILES, store |-> store, issued |-> n]
    ELSE uploadLoop(files, 1, store, n)

\* server.ts:174-185: the documents of the ids the registry still holds
getUploadedDocuments(uploadIds, store) ==
    {uploadIds[i] : i \in {j \in 1..Len(uploadIds) : uploadIds[j] \in store}}

\* the text of an upload id in a request body
idText(id) == numberToString(id)

\* the cache key of a request without ragConfig
requestKey(urls, uploadIds) ==
    buildVectorStoreCacheKeyWithUploads(
        urls, [i \in 1..Len(uploadIds) |-> idText(uploadIds[i])],
        [chunkSize |-> UNSET, chunkOverlap |-> UNSET])

\* buildVectorStore(urls, ragConfig, additionalDocs): the store holds the
\* passages of the pages and of the additional documents
builtStore(urls, additionalDocs) ==
    [urls |-> {urls[i] : i \in 1..Len(urls)}, uploads |-> additionalDocs]

\* the uploads a request may name: ids the server generated, oldest first
IdLists(n) ==
    { <<>> } \cup { <<i>> : i \in 1..n }
        \cup { p \in { <<i, j>> : i \in 1..n, j \in 1..n } : p[1] < p[2] }

\* every request names the same page
UrlLists == { << <<"a">> >> }

FileLists == UNION { [1..n -> FileKinds] : n \in 0..MaxIds }

UploadInit ==
    /\ PipelineIdle
    /\ CacheIdle
    /\ ServerIdle
    /\ ConfigIdle
    /\ UploadIdle

\* POST /api/upload (server.ts:80-118)
Upload ==
    /\ \E files \in FileLists :
         /\ issued + Len(files) <= MaxIds
         /\ LET r == upload(files, uploadStore, issued) IN
            /\ uploadStore' = r.store
            /\ issued' = r.issued
            /\ uploadResult' = [status |-> r.status, error |-> r.error,
                                before |-> uploadStore, after |-> r.store]
    /\ UNCHANGED <<clearedIds, served>>
    /\ UNCHANGED <<pipelineVars, cacheVars, serverVars, configVars>>

\* DELETE /api/uploads/clear (server.ts:120-123)
ClearUploads ==
    /\ uploadStore # {}
    /\ uploadStore' = {}
    /\ clearedIds' = clearedIds \cup uploadStore
    /\ UNCHANGED <<issued, uploadResult, served>>
    /\ UNCHANGED <<pipelineVars, cacheVars, serverVars, configVars>>

\* /api/chat or /api/sample-questions obtains its index through
\* getOrCreateVectorStore (server.ts:303-330) and searches it
ServeThroughCache ==
    /\ Len(served) < MaxServed
    /\ \E urls \in UrlLists, uploadIds \in IdLists(issued) :
         /\ Len(urls) + Len(uploadIds) > 0
         /\ LET key == requestKey(urls, uploadIds)
                hit == cacheHas(vectorStoreCache, key)
                store == IF hit THEN cacheGet(vectorStoreCache, key)
                         ELSE builtStore(urls,
                                  getUploadedDocuments(uploadIds, uploadStore))
            IN /\ vectorStoreCache' =
                     IF hit THEN vectorStoreCache
                     ELSE cacheSet(vectorStoreCache, key, store)
               /\ served' = Append(served,
                     [through |-> "cache", urls |-> urls,
                      uploadIds |-> uploadIds, built |-> ~hit,
                      store |-> store,
                      held |-> getUploadedDocuments(uploadIds, uploadStore),
                      cleared |-> clearedIds])
    /\ UNCHANGED <<env, avgDocLength, invocations, stores>>
    /\ UNCHANGED <<uploadStore, issued, clearedIds, uploadResult>>
    /\ UNCHANGED <<pipelineVars, serverVars, configVars>>

\* a run whose state carries no vector store: retrieveDocNode calls
\* retrieveDoc(urls, question, ragConfig) (rag-chain.ts:244-255, 274-296)
ServeWithoutStore ==
    /\ Len(served) < MaxServed
    /\ \E urls \in UrlLists, uploadIds \in IdLists(issued) :
         /\ Len(urls) + Len(uploadIds) > 0
         /\ served' = Append(served,
               [through |-> "retrieveDoc", urls |-> urls,
                uploadIds |-> uploadIds, built |-> TRUE,
                store |-> builtStore(urls, {}),
                held |-> getUploadedDocuments(uploadIds, uploadStore),
                cleared |-> clearedIds])
    /\ UNCHANGED <<uploadStore, issued, clearedIds, uploadResult>>
    /\ UNCHANGED <<pipelineVars, cacheVars, serverVars, configVars>>

UploadNext == Upload \/ ClearUploads \/ ServeThroughCache \/ ServeWithoutStore

UploadSpec == UploadInit /\ [][UploadNext]_vars

\* ---------------------------------------------------------------------------
\* Requests whose texts contain the separators of the cache key
\* ---------------------------------------------------------------------------

\* a client that names two pages, or one page whose address contains a
\* bar; and no upload, or an upload id that reads "none"
SeparatorRequests ==
    [urls : { << <<"a">>, <<"b">> >>, << <<"a", "|", "b">> >> },
     uploadIds : { <<>>, <<NONE>> },
     ragConfig : {NoRagConfig}]

SeparatorNext ==
    \/ NoneInFlight /\ StartCall(SeparatorRequests, NumSequential)
    \/ \E i \in 1..Len(invocations) : LoadDocuments(i)
    \/ \E i \in 1..Len(invocations) : LoadFails(i)
    \/ \E i \in 1..Len(invocations) : AddDocuments(i)
    \/ \E i \in 1..Len(invocations) : AddDocumentsFails(i)

SeparatorSpec == CacheInit /\ [][SeparatorNext]_vars

\* ---------------------------------------------------------------------------
\* The deadline-guarded /api/query (src/unnamed/part_000)
\* ---------------------------------------------------------------------------

NO_URL == "Please provide at least one URL"

\* part_000:27
GUARDED_TIMEOUT_MESSAGE ==
    <<"Request ", "timeout", ": The operation took too long. Please try with fewer URLs or a simpler question.">>

\* part_000:22
TIMEOUT_MS == 25000

\* part_000:43-59: the three validations, in order
guardedValidation(b) ==
    IF Len(b.urls) = 0 THEN NO_URL
    ELSE IF blank(b.message) THEN NO_QUESTION
    ELSE IF Len(b.urls) > URL_LIMIT THEN TOO_MANY_URLS
    ELSE "ok"

\* part_000:92-105
guardedFailure(errorMessage) ==
    LET isTimeout == errorMessage # <<>> /\ includes(errorMessage, TIMEOUT)
    IN [status |-> IF isTimeout THEN 408 ELSE 500,
        answer |-> <<>>, documents |-> <<>>,
        error |-> IF isTimeout THEN "Request Timeout" ELSE "Failed to process query",
        message |-> IF errorMessage # <<>> THEN errorMessage ELSE UNKNOWN_ERROR]

\* sendResponse (part_000:33-38): only the first call answers
sendResponse(r) ==
    responses' = IF responses = <<>> THEN <<r>> ELSE responses

GuardedInit ==
    /\ PipelineIdle
    /\ UploadIdle
    /\ env \in {NoEnv, [NoEnv EXCEPT !.nodeEnv = PRODUCTION]}
    /\ avgDocLength = 0
    /\ vectorStoreCache = <<>>
    /\ invocations = <<>>
    /\ stores = <<>>
    /\ ConfigIdle
    /\ endpoint = "guarded"
    /\ body \in Bodies
    /\ hstep = "received"
    /\ isFirstLoad = FALSE
    /\ timeoutId = "none"
    /\ expired = {}
    /\ responses = <<>>
    /\ storeCall = NoWork
    /\ work = NoWork
    /\ cached = FALSE
    /\ effects = NoEffects

\* the handler up to its first await (part_000:20-70): the timer is armed
\* before the body is looked at; a rejected request answers 400 and returns,
\* an accepted one starts graph.invoke and races it against the timer
GuardedReceive ==
    /\ endpoint = "guarded"
    /\ hstep = "received"
    /\ timeoutId' = "query"
    /\ effects' = [effects EXCEPT !.timers = @ + 1,
                                  !.deadlines = Append(@, TIMEOUT_MS)]
    /\ IF guardedValidation(body) # "ok"
       THEN /\ sendResponse(badRequest(guardedValidation(body)))
            /\ hstep' = "done"
            /\ UNCHANGED work
       ELSE /\ work' = [status |-> "running", message |-> <<>>]
            /\ hstep' = "work"
            /\ UNCHANGED responses
    /\ UNCHANGED <<endpoint, body, isFirstLoad, expired, storeCall, cached>>
    /\ UNCHANGED <<pipelineVars, cacheVars, configVars, uploadVars>>

\* the handler after the race was won by graph.invoke (part_000:72-106); no
\* line of the handler clears the timer
GuardedWorkSettled ==
    /\ endpoint = "guarded"
    /\ hstep = "work"
    /\ work.status \in {"resolved", "rejected"}
    /\ sendResponse(IF work.status = "resolved" THEN cannedReply("answer")
                    ELSE guardedFailure(work.message))
    /\ hstep' = "done"
    /\ UNCHANGED <<endpoint, body, isFirstLoad, timeoutId, expired, storeCall,
                   work, cached, effects>>
    /\ UNCHANGED <<pipelineVars, cacheVars, configVars, uploadVars>>

\* the timer fires after 25 s and timeoutPromise rejects (part_000:25-29).
\* While the race is undecided the await throws and the catch block answers
\* 408; after the race was decided the rejection is swallowed by the race;
\* when the request was rejected by a validation the promise was never
\* handed to Promise.race and its rejection is handled by nobody
GuardedTimerFires ==
    /\ endpoint = "guarded"
    /\ timeoutId = "query"
    /\ timeoutId' = "none"
    /\ expired' = expired \cup {"query"}
    /\ IF guardedValidation(body) # "ok"
       THEN /\ effects' = [effects EXCEPT !.unhandled = @ + 1]
            /\ UNCHANGED <<hstep, responses>>
       ELSE IF hstep = "work" /\ work.status \notin {"resolved", "rejected"}
       THEN /\ sendResponse(guardedFailure(GUARDED_TIMEOUT_MESSAGE))
            /\ hstep' = "done"
            /\ UNCHANGED effects
       ELSE UNCHANGED <<hstep, responses, effects>>
    /\ UNCHANGED <<endpoint, body, isFirstLoad, storeCall, work, cached>>
    /\ UNCHANGED <<pipelineVars, cacheVars, configVars, uploadVars>>

GuardedNext ==
    \/ GuardedReceive
    \/ WorkStep
    \/ WorkResolves
    \/ WorkRejects
    \/ WorkHangs
    \/ GuardedWorkSettled
    \/ GuardedTimerFires

GuardedSpec == GuardedInit /\ [][GuardedNext]_vars

\* ---------------------------------------------------------------------------
\* Deadlines of /api/chat

\* C21 (as claimed): once the deadline timer of a /api/chat request has
\* fired, the run it was waiting for executes no further stage and makes no
\* further call of the language model.
C21_AsClaimed ==
    [][timerFired => (executed' = executed /\ lmCalls' = lmCalls)]_vars

\* C22 (as claimed): a /api/chat request is answered 408 exactly when one of
\* its deadline timers expired; a failure of any other cause is answered 500.
C22_AsClaimed ==
    (handler = "chat" /\ response # NoResponse)
        => /\ (response.status = 408) <=> timerFired
           /\ (pc = "failed" /\ ~timerFired)
                => (response.status = 500
                    /\ response.error = "Failed to process message")

\* C23 (as claimed): every request to /api/chat, /api/query or
\* /api/sample-questions eventually receives a response, even when a call of
\* its build or of its run never returns.
C23_AsClaimed == <>(responses # <<>>)

\* the request bodies /api/chat is claimed to reject
C24_Invalid ==
    \/ (body.urls = <<>> /\ body.uploadIds = <<>>)
    \/ body.message = <<>>
    \/ AllWhitespace(body.message)
    \/ Len(body.urls) > 3

\* C24: a /api/chat request with no sources, with an empty or blank message
\* or with more than three URLs is answered 400 before any work: no cache
\* lookup or write, no build, no deadline timer and no step of a run.
C24_RejectedBeforeAnyWork ==
    (endpoint = "chat" /\ C24_Invalid)
        => /\ effects = NoEffects
           /\ timeoutId = "none"
           /\ expired = {}
           /\ storeCall = NoWork
           /\ work = NoWork
           /\ hstep \in {"received", "done"}
           /\ hstep = "done"
                => (Len(responses) = 1 /\ responses[1].status = 400)

C24_Witness ==
    /\ endpoint = "chat"
    /\ Len(body.urls) > 3
    /\ ~AllWhitespace(body.message)
    /\ hstep = "done"
    /\ responses = <<badRequest(TOO_MANY_URLS)>>
    /\ ~cached

\* C25 (as claimed): no index build is started for a request with more than
\* three URLs, at any endpoint.
C25_AsClaimed == Len(body.urls) > 3 => effects.builds = 0

\* ---------------------------------------------------------------------------
\* Chunking and retriever configuration

\* C26 (as claimed): for every ragConfig and environment the chunkSize and
\* chunkOverlap handed to the text splitter satisfy
\* 0 <= chunkOverlap < chunkSize.
C26_AsClaimed ==
    chunking # <<>>
        => /\ 0 <= chunking[1].chunkOverlap
           /\ chunking[1].chunkOverlap < chunking[1].chunkSize

\* neither the request nor the environment gives a chunkSize or a
\* chunkOverlap
NoExplicitChunking ==
    /\ normalizeRagConfig(rawConfig).chunkSize = UNSET
    /\ normalizeRagConfig(rawConfig).chunkOverlap = UNSET
    /\ env.chunkSize = UNSET
    /\ env.chunkOverlap = UNSET

Positive(x) == x # UNSET /\ x[1] > 0

\* C28 (as claimed): when ragConfig.chunkSize is a positive number the
\* resolved chunkSize is that number; otherwise, when CHUNK_SIZE of the
\* environment is a positive number, it is that number.
C28_AsClaimed ==
    chunking # <<>>
        => LET given == normalizeRagConfig(rawConfig).chunkSize IN
           /\ Positive(given) => chunking[1].chunkSize = given[1]
           /\ (~Positive(given) /\ Positive(env.chunkSize))
                => chunking[1].chunkSize = env.chunkSize[1]

\* C29 (as claimed): a retriever built under the mmr strategy has
\* fetchK >= k and a lambda within [0, 1] (0..10 tenths).
C29_AsClaimed ==
    (retrieverConfig # <<>> /\ retrieverConfig[1].searchType = <<MMR>>)
        => /\ retrieverConfig[1].searchKwargs[1].fetchK >= retrieverConfig[1].k
           /\ retrieverConfig[1].searchKwargs[1].lambda >= 0
           /\ retrieverConfig[1].searchKwargs[1].lambda <= 10

\* ---------------------------------------------------------------------------
\* Conversation window

\* the number of turns of the window of a conversation of n turns
WindowOf(n) == IF n < 6 THEN n ELSE 6

\* the lines of the conversation part, split at the line breaks
RECURSIVE LinesOf(_)
LinesOf(text) ==
    IF \A i \in 1..Len(text) : text[i] # "\n" THEN <<text>>
    ELSE LET i == CHOOSE j \in 1..Len(text) :
                      text[j] = "\n" /\ \A k \in 1..(j - 1) : text[k] # "\n"
         IN <<SubSeq(text, 1, i - 1)>> \o LinesOf(SubSeq(text, i + 1, Len(text)))

\* C30: the prompt of generate_answer holds exactly the last min(6, n) turns
\* of a conversation of n turns, oldest first, one line each, and no earlier
\* turn; an empty conversation gives no conversation section.
C30_LastSixTurnsInOrder ==
    prompt # <<>>
        => LET n == Len(conversationHistory)
               m == WindowOf(n)
               lines == LinesOf(prompt[1].historyContext)
           IN IF n = 0
              THEN prompt[1].historyContext = <<>> /\ prompt[1].section = <<>>
              ELSE /\ Len(lines) = m
                   /\ \A j \in 1..m :
                        LET turn == conversationHistory[n - m + j] IN
                        lines[j] = (IF turn.role = "user" THEN USER
                                    ELSE ASSISTANT)
                                       \o <<":", " ">> \o turn.content
                   /\ prompt[1].section
                        = PREVIOUS_CONVERSATION \o prompt[1].historyContext
                            \o <<"\n", "\n">>

C30_Witness ==
    /\ prompt # <<>>
    /\ Len(conversationHistory) = 7
    /\ conversationHistory[1].content # conversationHistory[7].content
    /\ conversationHistory[1].role # conversationHistory[2].role
    /\ Len(LinesOf(prompt[1].historyContext)) = 6

\* ---------------------------------------------------------------------------
\* Uploads

\* C31 (as claimed): after DELETE /api/uploads/clear no content of a cleared
\* upload is reachable: the index a later request searches holds no passage
\* of an upload removed before the request.
C31_AsClaimed ==
    \A i \in 1..Len(served) : served[i].store.uploads \cap served[i].cleared = {}

\* C32 (as claimed): when the state passed into a run already carries a
\* language-model session, the run instantiates no session and every stage
\* that uses a model uses the supplied one.
C32_AsClaimed ==
    /\ sessions = 0
    /\ \A i \in 1..Len(modelUsed) : modelUsed[i] = SUPPLIED_SESSION

\* C33 (as claimed): a run without a pre-built vector store searches an index
\* of all its sources, the uploads it names included, and a second such run
\* with the same sources does not build the index again.
C33_AsClaimed ==
    \A i \in 1..Len(served) :
        served[i].through = "retrieveDoc"
            => /\ served[i].store.uploads = served[i].held
               /\ \A j \in 1..(i - 1) :
                    (/\ served[j].urls = served[i].urls
                     /\ served[j].uploadIds = served[i].uploadIds)
                        => ~served[i].built

\* ---------------------------------------------------------------------------
\* Deadline tiers and single response of /api/chat

\* the default deadline of the environment of the server
DefaultDeadline == IF env.nodeEnv = <<"production">> THEN 25000 ELSE 120000

\* C34: /api/chat arms 180 s for the index and then 60 s for the pipeline
\* exactly when the cache lacks the request's key as the request is
\* processed, the default deadline (25 s in production, 120 s otherwise) for
\* both phases when it holds the key, and getOrCreateVectorStore builds
\* exactly in the first case.
C34_DeadlineTiers ==
    [][(endpoint = "chat" /\ effects'.timers > effects.timers)
        => IF hstep = "received"
           THEN /\ effects'.deadlines =
                     <<IF cached THEN DefaultDeadline ELSE 180000>>
                /\ effects'.builds = (IF cached THEN 0 ELSE 1)
                /\ storeCall'.status = (IF cached THEN "resolved" ELSE "building")
           ELSE /\ Len(effects.deadlines) = 1
                /\ effects'.deadlines =
                     Append(effects.deadlines,
                            IF effects.builds = 1 THEN 60000
                            ELSE DefaultDeadline)]_vars

C34_Witness ==
    /\ endpoint = "chat"
    /\ env.nodeEnv = <<"production">>
    /\ effects.deadlines = <<25000, 25000>>
    /\ effects.builds = 0
    /\ responses # <<>>

\* C37: whatever the order of build completion, run completion, failure and
\* timer expiry, /api/chat sends at most one response, and once it is sent
\* no deadline timer of the request is armed.
C37_OneResponseNoTimerLeft ==
    endpoint = "chat"
        => /\ Len(responses) <= 1
           /\ responses # <<>> => (timeoutId = "none" /\ hstep = "done")
           /\ Cardinality(expired) <= 1
           /\ expired # {} => (responses # <<>> /\ responses[1].status = 408)

C37_Witness ==
    /\ endpoint = "chat"
    /\ expired = {"graph"}
    /\ work.status = "resolved"
    /\ storeCall.status = "resolved"
    /\ Len(responses) = 1
    /\ timeoutId = "none"

\* ---------------------------------------------------------------------------
\* Verdict parsing and state merging

\* the verdict of a call that returned contains the word, in any case
Mentions(o, word) == o.called /\ ~o.threw /\ includes(toLowerCase(o.text), word)

\* the documents of the lenient grader when it reads "yes" by containment
KeptByContainment ==
    LET kept == {i \in 1..Len(docOutcomes) :
                    docOutcomes[i].threw \/ Mentions(docOutcomes[i], YES)}
    IN IF kept = {} THEN SubSeq(retrieved, 1, Min(3, Len(retrieved)))
       ELSE [j \in 1..Cardinality(kept) |->
                retrieved[CHOOSE i \in kept :
                    Cardinality({h \in kept : h <= i}) = j]]

\* C35 (as claimed): both graders of the lenient pipeline read the verdict by
\* case-insensitive containment: a document is kept when its verdict
\* contains "yes", and an answer whose verdict contains "no" ("No." as well
\* as "no") gets the incompleteness note.
C35_AsClaimed ==
    variant = "lenient"
        => /\ GradeCompleted => state.documents = KeptByContainment
           /\ (Executed("grade_generated_answer") /\ Mentions(ansOutcome, NO))
                => state.generatedAnswer = generated.text \o INCOMPLETE_NOTE

\* what merging an update into the current state gives, for the updates the
\* claim names
MergeRules ==
    /\ applyUpdate(state, [documents |-> <<>>]).documents = <<>>
    /\ \A n \in 1..MaxDocs :
         applyUpdate(state, [documents |-> [i \in 1..n |-> i]]).documents
            = [i \in 1..n |-> i]
    /\ applyUpdate(state, [generatedAnswer |-> <<>>]).generatedAnswer
            = state.generatedAnswer
    /\ \A a \in Answers \ {<<>>} :
         /\ applyUpdate(state, [generatedAnswer |-> a]).generatedAnswer = a
         /\ applyUpdate(state, [generatedAnswer |-> a]).documents = state.documents
         /\ applyUpdate(state, [generatedAnswer |-> a]).model = state.model
    /\ applyUpdate(state, [documents |-> <<>>]).generatedAnswer
            = state.generatedAnswer

\* generate_answer and grade_generated_answer leave the documents alone
DocumentsKept ==
    pc \in {"generate_answer", "grade_generated_answer"}
        => state'.documents = state.documents

\* C36: a documents update replaces the list wholesale (an empty list
\* included), an empty generatedAnswer update never overwrites an answer,
\* and a field absent from an update keeps its value; so generate_answer and
\* grade_generated_answer leave the graded documents unchanged and a
\* successful response returns exactly the graded list.
C36_MergeRulesKeepGradedDocuments ==
    /\ [](MergeRules
          /\ (response.status = 200 => response.documents = state.documents)
          /\ (variant = "lenient" /\ GradeCompleted)
                => state.documents = KeptByContainment)
    /\ [][DocumentsKept]_vars

C36_Witness ==
    /\ pc = "END"
    /\ response.status = 200
    /\ Executed("grade_generated_answer")
    /\ Len(retrieved) = 3
    /\ Len(state.documents) = 2
    /\ state.generatedAnswer # <<>>
    /\ response.documents = state.documents

\* ---------------------------------------------------------------------------
\* Failed uploads
\* ---------------------------------------------------------------------------

\* C39: an /api/upload request that ends in an error (400 or 500) leaves the
\* upload registry as it was, wherever the offending file stands in the
\* request.
C39_AsClaimed ==
    uploadResult.status \in {400, 500}
        => uploadResult.after = uploadResult.before

\* ---------------------------------------------------------------------------
\* Cache keys of distinct inputs
\* ---------------------------------------------------------------------------

Members(list) == {list[i] : i \in 1..Len(list)}

SameInputs(r, s) ==
    /\ Members(r.urls) = Members(s.urls)
    /\ Members(r.uploadIds) = Members(s.uploadIds)
    /\ r.ragConfig.chunkSize = s.ragConfig.chunkSize
    /\ r.ragConfig.chunkOverlap = s.ragConfig.chunkOverlap

\* C40: two requests are served from the same cache entry only if they name
\* the same set of urls, the same set of upload ids and the same chunkSize
\* and chunkOverlap.
C40_AsClaimed ==
    \A i, j \in 1..Len(invocations) :
        ( /\ invocations[i].phase = "returned"
          /\ invocations[j].phase = "returned"
          /\ invocations[i].store = invocations[j].store )
            => SameInputs(invocations[i].request, invocations[j].request)

\* ---------------------------------------------------------------------------
\* The timer of the deadline-guarded /api/query
\* ---------------------------------------------------------------------------

\* C38: the 25 s timer of the guarded /api/query never expires unobserved: a
\* request rejected by a validation leaves no armed timer whose rejection
\* nobody handles, and a timer that fires after the response has no effect.
C38_AsClaimed ==
    endpoint = "guarded" =>
        /\ effects.unhandled = 0
        /\ (hstep = "done" /\ guardedValidation(body) # "ok")
                => timeoutId = "none"
        /\ Len(responses) <= 1

\* a timer that fires after the handler answered changes neither the
\* response nor the position of the handler
LateTimerHasNoEffect ==
    [][(endpoint = "guarded" /\ hstep = "done" /\ expired' # expired)
            => (responses' = responses /\ hstep' = hstep)]_vars

====
